---- MODULE Spec2Model ----
(***************************************************************************)
(* FileDust: content-defined chunking, versioned manifest with a global    *)
(* chunk pool, resumable upload (syncFileToDust) and restore               *)
(* (restoreFileSyncDust).                                                  *)
(*                                                                         *)
(* Sizes are scaled down: the chunk-size argument is counted in units of   *)
(* UnitBytes bytes (1024 in the program), so that files of a few bytes     *)
(* split into several chunks.  The gear hash is kept modulo 2^HashBits:    *)
(* the program only ever tests the low floor(log2(avg))+1 bits of the      *)
(* 64-bit hash, and those bits of ((h << 1) + G[c]) depend only on the     *)
(* same low bits of h and G[c].                                            *)
(***************************************************************************)
EXTENDS Integers, Sequences, FiniteSets, TLC

(* ------------------------------ bounds -------------------------------- *)
MaxFileLen == 2
MaxVersions == 2
MaxPuts == 3
MaxKills == 1
UnitBytes == 1
HashBits == 8
MaxPipeLen == 6
MaxRetries == 3
MaxSize == 4
MaxCalls == 3
MaxChanges == 3
MAX_CACHE_SIZE == 2

Bytes == {0, 4}
ChunkSizes == {8, 16}
Passwords == {"pw"}

RECURSIVE SeqsUpTo(_, _)
SeqsUpTo(S, n) ==
    IF n = 0 THEN {<<>>}
    ELSE LET shorter == SeqsUpTo(S, n - 1)
         IN  shorter \cup {Append(s, x) : s \in {t \in shorter : Len(t) = n - 1}, x \in S}

Files == SeqsUpTo(Bytes, MaxFileLen)
LongFiles == SeqsUpTo(Bytes, MaxPipeLen)

(* ------------------------- FastCDC (FastCDC.js) ----------------------- *)
GEAR_SEED == 1337
LcgMulLow == 45
LcgAddLow == 79
HashMod == 2 ^ HashBits

\* lcg(seed): state after n calls of the closure, low HashBits bits
RECURSIVE lcg(_)
lcg(n) == IF n = 0 THEN GEAR_SEED % HashMod
          ELSE (lcg(n - 1) * LcgMulLow + LcgAddLow) % HashMod

\* GEAR_TABLE[i] = i-th output of rand(), i from 0
GEAR_TABLE(byte) == lcg(byte + 1)

RECURSIVE Log2Floor(_)
Log2Floor(n) == IF n <= 1 THEN 0 ELSE 1 + Log2Floor(n \div 2)

\* new FastCDCConfig(minSize, avgSize, maxSize); a mask 2^k - 1 is kept as
\* its modulus 2^k, so that (hash & mask) === 0n is hash % modulus = 0
FastCDCConfig(minSize, avgSize, maxSize) ==
    LET maskBits == Log2Floor(avgSize)
    IN  [minSize |-> minSize, avgSize |-> avgSize, maxSize |-> maxSize,
         maskS |-> 2 ^ (maskBits + 1),
         maskL |-> IF maskBits >= 1 THEN 2 ^ (maskBits - 1) ELSE HashMod]

Min(a, b) == IF a < b THEN a ELSE b

\* Phase 2 of getChunkSize: looser mask, up to limit
RECURSIVE Phase2(_, _, _, _, _, _)
Phase2(config, data, offset, limit, hash, i) ==
    IF i < limit
    THEN LET h == ((hash * 2) + GEAR_TABLE(data[offset + i + 1])) % HashMod
         IN  IF h % config.maskL = 0 THEN i
             ELSE Phase2(config, data, offset, limit, h, i + 1)
    ELSE limit

\* Phase 1 of getChunkSize: stricter mask, up to avgSize
RECURSIVE Phase1(_, _, _, _, _, _)
Phase1(config, data, offset, limit, hash, i) ==
    IF i < config.avgSize /\ i < limit
    THEN LET h == ((hash * 2) + GEAR_TABLE(data[offset + i + 1])) % HashMod
         IN  IF h % config.maskS = 0 THEN i
             ELSE Phase1(config, data, offset, limit, h, i + 1)
    ELSE Phase2(config, data, offset, limit, hash, i)

\* getChunkSize without its limit at maxSize, as the mutation of
\* getChunkSize
getChunkSizeUnlimited(config, data, offset, remainingLen) ==
    IF remainingLen <= config.minSize THEN remainingLen
    ELSE Phase1(config, data, offset, remainingLen, 0, config.minSize)

getChunkSize(config, data, offset, remainingLen) ==
    IF remainingLen <= config.minSize THEN remainingLen
    ELSE Phase1(config, data, offset, Min(config.maxSize, remainingLen), 0, config.minSize)

(* ------------------- digests and envelope (CryptoUtils) --------------- *)
\* MD5 and SHA-256 as collision-free digests: a tagged copy of the input
MD5(b) == [md5 |-> b]
SHA256(b) == [sha256 |-> b]

\* loadOrGenerateKey(password): the salt is fixed once, the key is a
\* function of the passphrase
KeyOf(password) == [scrypt |-> password]

\* encrypt(data, key): iv || authTag || ciphertext, under a fresh iv
encrypt(data, key, iv) == [iv |-> iv, key |-> key, pt |-> data, ok |-> TRUE]

\* a call that throws
Throws == [ok |-> FALSE, pt |-> << >>]

\* a decrypt that does not verify the tag
decryptUnverified(env, key) == [ok |-> TRUE, pt |-> env.pt]

IV_LENGTH == 12
TAG_LENGTH == 16

\* the length of the packed buffer: iv, authTag and a ciphertext as long as
\* the plaintext (GCM)
EnvelopeLength(env) == IV_LENGTH + TAG_LENGTH + Len(env.pt)

\* decrypt(cipherText, key): throws on a buffer of at most iv and tag; else
\* the plaintext when the tag verifies
decrypt(env, key) ==
    IF EnvelopeLength(env) <= IV_LENGTH + TAG_LENGTH THEN Throws
    ELSE IF env.ok /\ env.key = key THEN [ok |-> TRUE, pt |-> env.pt] ELSE Throws

(* ------------------------------ manifest ------------------------------ *)
Null == [null |-> TRUE]
NoFile == [nofile |-> TRUE]
Torn == [torn |-> TRUE]

EmptyManifest == [pool |-> << >>, versions |-> << >>]

IsDoc(d) == d # NoFile /\ d # Torn

\* arr[i] of a JS array, i from 0: undefined when out of range or a hole
At(arr, i) == IF i < Len(arr) THEN arr[i + 1] ELSE Null

\* arr[i] = v of a JS array, i from 0: the array grows, leaving holes
SetAt(arr, i, v) ==
    [j \in 1..(IF i + 1 > Len(arr) THEN i + 1 ELSE Len(arr)) |->
        IF j = i + 1 THEN v ELSE IF j <= Len(arr) THEN arr[j] ELSE Null]

InPool(pool, ph) == ph \in DOMAIN pool

\* manifest.pool[ph] = entry
PoolSet(pool, ph, entry) ==
    [k \in (DOMAIN pool) \cup {ph} |-> IF k = ph THEN entry ELSE pool[k]]

(* ------------------------------- state -------------------------------- *)
VARIABLES
    browser,     \* the Dust Browser: the loaded manifest info, its chunk cache and
                 \* pending requests, and one GET /stream
    watcher,     \* the watcher script: isSyncing, its timer, the syncs it ran
    kf,          \* salt.json, the running call of loadOrGenerateKey, the keys returned
    box,         \* one call of encrypt and the call of decrypt on what it packed
    cdc,         \* a FastCDC instance, its input, and the loops that chunk it
    file,        \* bytes of the source file
    kills,       \* number of times a sync process was killed so far
    disk,        \* content of <name>.sync.dust: NoFile, Torn or a manifest
    remote,      \* blobs stored by uploadDataStream, by url
    pc,          \* "idle", "running" (read loop / Promise.all), "failed"
    kb,          \* chunkSizeKB of the running invocation
    mem,         \* the manifest object of the running invocation
    cvi,         \* currentVersionIndex, from 0
    partNum,
    fileOffset,
    tasks,       \* the upload tasks handed to uploadLimit, in submit order
    oldMem,      \* the manifest object of an invocation that threw, while
                 \* tasks of it are still queued or running
    oldCvi,      \* that invocation's currentVersionIndex
    out,         \* restored_v<N>_<filename> files, by N; restored_<filename> at 0
    res,         \* the last restoreFileSyncDust call and how it ended
    downloads,   \* the download tasks handed to downloadLimit, in map order
    rt,          \* the call of retry() that is followed step by step
    dust,        \* content of <name>.dust, the manifest of uploadToDust
    hist         \* history of the sync of the current file content

vars == <<browser, watcher, kf, box, cdc, file, kills, disk, remote, pc, kb, mem, cvi, partNum, fileOffset, tasks,
          oldMem, oldCvi, out, res, downloads, rt, dust, hist>>

\* no chunker under observation
NoCdc == [pc |-> "none", config |-> FastCDCConfig(0, 1, 1), data |-> << >>, offset |-> 0,
          boundaries |-> << >>, wpc |-> "none", woffset |-> 0, wboundaries |-> << >>]

\* no envelope under observation
NoBox == [pc |-> "none", key |-> KeyOf("pw"), data |-> << >>,
          packed |-> encrypt(<< >>, KeyOf("pw"), 0), with |-> KeyOf("pw"), result |-> Throws]

\* no salt.json, no call of loadOrGenerateKey
NoKey == [file |-> NoFile, pc |-> "idle", password |-> "", salt |-> 0, kills |-> 0,
          returned |-> << >>]

\* the watcher script at its start: no sync yet, no timer
NoWatch == [isSyncing |-> FALSE, syncTimeout |-> FALSE, running |-> 0, changes |-> 0,
            events |-> 0, covers |-> 0, skippedAt |-> 0, syncs |-> 0, threw |-> 0]

\* no stream under observation
NoStream == [pc |-> "none", start |-> 0, end |-> 0, announced |-> 0, currentOffset |-> 0,
             chunkIndex |-> 0, got |-> << >>, written |-> << >>, aborted |-> FALSE,
             errored |-> FALSE, wroteAfterClose |-> FALSE]

\* the Dust Browser before a manifest is opened in it
NoBrowser == [loaded |-> "no", chunks |-> << >>, total_size |-> 0, chunkSize |-> 0,
              chunkCache |-> << >>, pendingRequests |-> {}, netFailed |-> FALSE,
              stream |-> NoStream]

uploadLimit == 3
downloadLimit == 5

password == "pw"

NoRes == [status |-> "none", target |-> 0]
NoRetry == [pc |-> "idle", retries |-> 0, delayMs |-> 0, i |-> 0, calls |-> 0, warns |-> 0,
            waits |-> << >>, result |-> 0]
NoHist == [open |-> FALSE, started |-> FALSE, file |-> << >>, kb |-> 0, sameKb |-> TRUE,
           killed |-> FALSE, fresh |-> FALSE, base |-> 0,
           ref |-> [chunks |-> << >>, keys |-> {}]]

Init ==
    /\ file \in Files
    /\ kills = 0
    /\ disk = NoFile
    /\ remote = << >>
    /\ pc = "idle"
    /\ kb = 0
    /\ mem = EmptyManifest
    /\ cvi = -1
    /\ partNum = 0
    /\ fileOffset = 0
    /\ tasks = << >>
    /\ oldMem = EmptyManifest
    /\ oldCvi = -1
    /\ out = << >>
    /\ res = NoRes
    /\ downloads = << >>
    /\ rt = NoRetry
    /\ dust = NoFile
    /\ cdc = NoCdc
    /\ box = NoBox
    /\ kf = NoKey
    /\ watcher = NoWatch
    /\ browser = NoBrowser
    /\ hist = NoHist

(* --------------------- syncFileToDust (FileDustSync.js) --------------- *)
IsDescriptor(chunk) == "plain_hash" \in DOMAIN chunk
IsString(chunk) == "md5" \in DOMAIN chunk

\* an upgrade that places every descriptor at its index in the array, as
\* the mutation of UpgradeChunks
RECURSIVE UpgradeChunksByIndex(_, _, _, _)
UpgradeChunksByIndex(chunks, i, pool, newChunks) ==
    IF i >= Len(chunks) THEN [pool |-> pool, chunks |-> newChunks]
    ELSE LET chunk == chunks[i + 1]
         IN  IF IsDescriptor(chunk)
             THEN UpgradeChunksByIndex(chunks, i + 1,
                      PoolSet(pool, chunk.plain_hash, [hash |-> chunk.hash, url |-> chunk.url]),
                      SetAt(newChunks, i, chunk.plain_hash))
             ELSE IF IsString(chunk)
             THEN UpgradeChunksByIndex(chunks, i + 1, pool, SetAt(newChunks, i, chunk))
             ELSE UpgradeChunksByIndex(chunks, i + 1, pool, newChunks)

\* inner loop of the forward-compatibility upgrade, over one version
RECURSIVE UpgradeChunks(_, _, _, _)
UpgradeChunks(chunks, i, pool, newChunks) ==
    IF i >= Len(chunks) THEN [pool |-> pool, chunks |-> newChunks]
    ELSE LET chunk == chunks[i + 1]
         IN  IF IsDescriptor(chunk)
             THEN UpgradeChunks(chunks, i + 1,
                      PoolSet(pool, chunk.plain_hash, [hash |-> chunk.hash, url |-> chunk.url]),
                      SetAt(newChunks, IF "part" \in DOMAIN chunk THEN chunk.part ELSE i,
                            chunk.plain_hash))
             ELSE IF IsString(chunk)
             THEN UpgradeChunks(chunks, i + 1, pool, SetAt(newChunks, i, chunk))
             ELSE UpgradeChunks(chunks, i + 1, pool, newChunks)

\* outer loop of the upgrade, over manifest.versions
RECURSIVE UpgradeVersions(_, _, _, _)
UpgradeVersions(versions, v, pool, acc) ==
    IF v > Len(versions) THEN [pool |-> pool, versions |-> acc]
    ELSE LET ver == versions[v]
         IN  IF Len(ver.chunks) > 0
             THEN LET r == UpgradeChunks(ver.chunks, 0, pool, << >>)
                  IN  UpgradeVersions(versions, v + 1, r.pool,
                                      Append(acc, [ver EXCEPT !.chunks = r.chunks]))
             ELSE UpgradeVersions(versions, v + 1, pool, Append(acc, ver))

\* JSON.parse of the manifest file followed by the upgrade; a missing or
\* unparsable file leaves the fresh manifest
LoadManifest(d) ==
    IF IsDoc(d) THEN UpgradeVersions(d.versions, 1, d.pool, << >>) ELSE EmptyManifest

\* the CDC configuration derived from chunkSizeKB
CdcConfig(chunkSizeKB) ==
    LET maxChunkSize == chunkSizeKB * UnitBytes
        avgChunkSize == maxChunkSize \div 2
        minChunkSize == avgChunkSize \div 4
    IN  FastCDCConfig(minChunkSize, avgChunkSize, maxChunkSize)

\* saveManifest(): fs.writeFileSync of JSON.stringify(manifest); holes of a
\* sparse chunks array are written as null
saveManifest(manifest) == manifest

ResetRun ==
    /\ pc' = "idle"
    /\ kb' = 0
    /\ mem' = EmptyManifest
    /\ cvi' = -1
    /\ partNum' = 0
    /\ fileOffset' = 0
    /\ tasks' = << >>
    /\ oldMem' = EmptyManifest
    /\ oldCvi' = -1

\* what syncFileToDust decides after loading: "noop", "resume" or "new"
ResumeDecision(manifest, fileHash) ==
    LET n == Len(manifest.versions)
    IN  IF n > 0 /\ manifest.versions[n].file_hash = fileHash
        THEN IF manifest.versions[n].status = "completed" THEN "noop" ELSE "resume"
        ELSE "new"

\* the manifest with which the read loop starts
OpenVersion(manifest, fileHash, fileSize) ==
    IF ResumeDecision(manifest, fileHash) = "resume" THEN manifest
    ELSE [manifest EXCEPT !.versions =
             Append(@, [version |-> Len(manifest.versions) + 1,
                        file_hash |-> fileHash,
                        total_size |-> fileSize,
                        status |-> "pending",
                        chunks |-> << >>])]

\* the read window at an offset and the chunk cut from it
ChunkAt(data, chunkSizeKB, offset) ==
    LET maxChunkSize == chunkSizeKB * UnitBytes
        remaining == Len(data) - offset
        toRead == Min(maxChunkSize, remaining)
        readBuffer == SubSeq(data, offset + 1, offset + toRead)
        chunkLen == getChunkSize(CdcConfig(chunkSizeKB), readBuffer, 0, toRead)
    IN  SubSeq(readBuffer, 1, chunkLen)

\* the chunks the read loop cuts from offset on, in order
RECURSIVE ChunksFrom(_, _, _)
ChunksFrom(data, chunkSizeKB, offset) ==
    IF offset >= Len(data) THEN << >>
    ELSE LET c == ChunkAt(data, chunkSizeKB, offset)
         IN  IF Len(c) = 0 THEN << >>
             ELSE <<c>> \o ChunksFrom(data, chunkSizeKB, offset + Len(c))

Range(f) == {f[x] : x \in DOMAIN f}

\* chunks sequences and pool keys that one run without interruption leaves
Uninterrupted(manifest, data, chunkSizeKB) ==
    LET cs == ChunksFrom(data, chunkSizeKB, 0)
        phs == [x \in 1..Len(cs) |-> MD5(cs[x])]
        opened == OpenVersion(manifest, SHA256(data), Len(data))
        n == Len(opened.versions)
    IN  [chunks |-> [v \in 1..n |-> IF v = n THEN phs ELSE opened.versions[v].chunks],
         keys |-> (DOMAIN manifest.pool) \cup Range(phs)]

Puts == Cardinality(DOMAIN remote)

\* history: a run continues the sync of the same content, or begins one
HistAtStart(chunkSizeKB) ==
    IF hist.open /\ hist.file = file
    THEN [hist EXCEPT !.sameKb = @ /\ chunkSizeKB = hist.kb]
    ELSE [open |-> TRUE, started |-> TRUE, file |-> file, kb |-> chunkSizeKB, sameKb |-> TRUE,
          killed |-> FALSE,
          fresh |-> DOMAIN LoadManifest(disk).pool = {}, base |-> Puts,
          ref |-> Uninterrupted(LoadManifest(disk), file, chunkSizeKB)]

\* restoreFileSyncDust only reads the manifest and the store: the restores
\* are explored after the syncs, from every manifest the syncs can leave
NoRestoreYet == res.status = "none"

RunningIn(ts) == {t \in 1..Len(ts) : ts[t].st = "running"}
QueuedIn(ts) == {t \in 1..Len(ts) : ts[t].st = "queued"}
Running == RunningIn(tasks)
Queued == QueuedIn(tasks)

\* the tasks of the invocation that is running or ended last
Own(ts) == {t \in 1..Len(ts) : ~ts[t].old}

IsUnsettled(task) == task.st \in {"running", "queued"}

\* Promise.all rejects at the first rejection and cancels nothing: the tasks
\* of the invocation that are not settled stay with uploadLimit
Lingering(ts) ==
    LET u == SelectSeq(ts, IsUnsettled)
    IN  [x \in 1..Len(u) |-> [u[x] EXCEPT !.old = TRUE]]

\* no invocation is running and no task is left
Quiet == pc = "idle" /\ tasks = << >>

\* the call is not a no-op, and the manifest has room for its version
HasWork ==
    /\ ResumeDecision(LoadManifest(disk), SHA256(file)) # "noop"
    /\ ResumeDecision(LoadManifest(disk), SHA256(file)) = "new"
          => Len(LoadManifest(disk).versions) < MaxVersions

\* syncFileToDust is called in a new process
CanStart ==
    /\ Quiet
    /\ NoRestoreYet
    /\ HasWork

\* syncFileToDust up to the first saveManifest()
Invoke(chunkSizeKB) ==
    /\ LET opened == OpenVersion(LoadManifest(disk), SHA256(file), Len(file))
       IN  /\ mem' = opened
           /\ cvi' = Len(opened.versions) - 1
           /\ disk' = saveManifest(opened)
    /\ pc' = "running"
    /\ kb' = chunkSizeKB
    /\ partNum' = 0
    /\ fileOffset' = 0
    /\ tasks' = Lingering(tasks)
    /\ oldMem' = IF Lingering(tasks) = << >> THEN EmptyManifest ELSE mem
    /\ oldCvi' = IF Lingering(tasks) = << >> THEN -1 ELSE cvi
    /\ hist' = HistAtStart(chunkSizeKB)
    /\ UNCHANGED <<browser, watcher, kf, box, cdc, dust, rt, downloads, file, kills, remote, out, res>>

Start(chunkSizeKB) == CanStart /\ Invoke(chunkSizeKB)

\* syncFileToDust is called again by the process whose last call threw,
\* while tasks of that call are still queued or running
Rerun(chunkSizeKB) ==
    /\ pc = "failed"
    /\ Own(tasks) = 1..Len(tasks)
    /\ Lingering(tasks) # << >>
    /\ HasWork
    /\ Invoke(chunkSizeKB)

\* a limiter that starts every task at once
SubmitUnlimited(ts, task) ==
    Append(ts, [part |-> task.part, chunk |-> task.chunk, old |-> FALSE, st |-> "running"])

\* uploadLimit(fn): fn starts at once when fewer than uploadLimit tasks run,
\* else it waits in the queue
Submit(ts, task) ==
    Append(ts, [part |-> task.part, chunk |-> task.chunk, old |-> FALSE,
                st |-> IF Cardinality(RunningIn(ts)) < uploadLimit THEN "running" ELSE "queued"])

\* a task settles; the oldest task of the queue takes the freed slot
Settle(ts, t, st) ==
    LET settled == [ts EXCEPT ![t].st = st]
        q == QueuedIn(settled)
    IN  IF q = {} THEN settled
        ELSE [settled EXCEPT ![CHOOSE x \in q : \A y \in q : x <= y].st = "running"]

currentVersionChunks == mem.versions[cvi + 1].chunks

\* resume skip: the position is recorded and its digest is in the pool
ResumeSkip(chunks, pool, part) ==
    At(chunks, part) # Null /\ InPool(pool, At(chunks, part))

\* a read loop without the dedup branch
NeverDedup(pool, plainHash) == FALSE

\* dedup skip: the digest of the chunk just read is in the pool
DedupHit(pool, plainHash) == InPool(pool, plainHash)

\* one iteration of the read loop
ReadChunk ==
    /\ pc = "running"
    /\ fileOffset < Len(file)
    /\ LET actualChunk == ChunkAt(file, kb, fileOffset)
           plainHash == MD5(actualChunk)
       IN  /\ fileOffset' = fileOffset + Len(actualChunk)
           /\ partNum' = partNum + 1
           /\ IF ResumeSkip(currentVersionChunks, mem.pool, partNum)
              THEN UNCHANGED <<mem, disk, tasks>>
              ELSE IF DedupHit(mem.pool, plainHash)
              THEN /\ mem' = [mem EXCEPT !.versions[cvi + 1].chunks = SetAt(@, partNum, plainHash)]
                   /\ disk' = saveManifest(mem')
                   /\ UNCHANGED tasks
              ELSE /\ tasks' = Submit(tasks, [part |-> partNum, chunk |-> actualChunk])
                   /\ UNCHANGED <<mem, disk>>
    /\ UNCHANGED <<browser, watcher, kf, box, cdc, dust, rt, downloads, file, kills, remote, pc, kb, cvi, oldMem, oldCvi, out, res, hist>>

\* an upload task that assigns the position and leaves the pool alone
RecordPositionOnly(manifest, index, t, hash, downloadUrl) ==
    [manifest EXCEPT !.versions[index + 1].chunks = SetAt(@, t.part, MD5(t.chunk))]

\* an upload task that pushes its digest onto chunks when it completes
RecordInCompletionOrder(manifest, index, t, hash, downloadUrl) ==
    [manifest EXCEPT
        !.pool = PoolSet(@, MD5(t.chunk), [hash |-> hash, url |-> downloadUrl]),
        !.versions[index + 1].chunks = Append(@, MD5(t.chunk))]

\* the body of an upload task after a successful uploadDataStream
Record(manifest, index, t, hash, downloadUrl) ==
    [manifest EXCEPT
        !.pool = PoolSet(@, MD5(t.chunk), [hash |-> hash, url |-> downloadUrl]),
        !.versions[index + 1].chunks = SetAt(@, t.part, MD5(t.chunk))]

\* the url of a new blob: the arweave id is opaque and unique; here it is
\* the plaintext digest numbered by the blobs already stored for it
NewUrl(store, chunk) ==
    [ph |-> MD5(chunk),
     n |-> Cardinality({u \in DOMAIN store : u.ph = MD5(chunk)}) + 1]

\* uploadDataStream stores the blob under a new url
RemotePut(store, chunk) ==
    PoolSet(store, NewUrl(store, chunk), encrypt(chunk, KeyOf(password), NewUrl(store, chunk).n))

\* the saveManifest() that ends an upload task
TaskSave(manifest) == saveManifest(manifest)

\* retry(uploadDataStream) returns a url: pool insert, position, save
PutOk(t) ==
    /\ t \in Running
    /\ Puts < MaxPuts
    /\ LET downloadUrl == NewUrl(remote, tasks[t].chunk)
           hash == MD5(RemotePut(remote, tasks[t].chunk)[downloadUrl])
       IN  /\ remote' = RemotePut(remote, tasks[t].chunk)
           /\ IF tasks[t].old
              THEN /\ oldMem' = Record(oldMem, oldCvi, tasks[t], hash, downloadUrl)
                   /\ disk' = TaskSave(oldMem')
                   /\ UNCHANGED mem
              ELSE /\ mem' = Record(mem, cvi, tasks[t], hash, downloadUrl)
                   /\ disk' = TaskSave(mem')
                   /\ UNCHANGED oldMem
    /\ tasks' = Settle(tasks, t, "done")
    /\ UNCHANGED <<browser, watcher, kf, box, cdc, dust, rt, downloads, file, kills, pc, kb, cvi, partNum, fileOffset, oldCvi, out, res, hist>>

\* retry(uploadDataStream) throws after its last attempt: the task rejects
PutFail(t) ==
    /\ t \in Running
    /\ tasks' = Settle(tasks, t, "failed")
    /\ UNCHANGED <<browser, watcher, kf, box, cdc, dust, rt, downloads, file, kills, disk, remote, pc, kb, mem, cvi, partNum, fileOffset,
                   oldMem, oldCvi, out, res, hist>>

AtAwait == pc = "running" /\ fileOffset >= Len(file)

\* a Promise.allSettled in the place of Promise.all
AllSettled(ts) == \A t \in Own(ts) : ts[t].st \in {"done", "failed"}

\* await Promise.all(uploadTasks) fulfils
AllFulfilled(ts) == \A t \in Own(ts) : ts[t].st = "done"

\* await Promise.all(uploadTasks) rejects
SomeRejected == \E t \in Own(tasks) : tasks[t].st = "failed"

\* Promise.all fulfils: status completed, final saveManifest(), return
Finish ==
    /\ AtAwait
    /\ AllFulfilled(tasks)
    /\ disk' = saveManifest([mem EXCEPT !.versions[cvi + 1].status = "completed"])
    /\ pc' = "idle"
    /\ kb' = 0
    /\ mem' = EmptyManifest
    /\ cvi' = -1
    /\ partNum' = 0
    /\ fileOffset' = 0
    /\ tasks' = Lingering(tasks)
    /\ oldMem' = IF Lingering(tasks) = << >> THEN EmptyManifest ELSE oldMem
    /\ oldCvi' = IF Lingering(tasks) = << >> THEN -1 ELSE oldCvi
    /\ hist' = [hist EXCEPT !.open = FALSE]
    /\ UNCHANGED <<browser, watcher, kf, box, cdc, dust, rt, downloads, file, kills, remote, out, res>>

\* Promise.all rejects: syncFileToDust throws; started tasks are not cancelled
Throw ==
    /\ AtAwait
    /\ SomeRejected
    /\ pc' = "failed"
    /\ UNCHANGED <<browser, watcher, kf, box, cdc, dust, rt, downloads, file, kills, disk, remote, kb, mem, cvi, partNum, fileOffset, tasks,
                   oldMem, oldCvi, out, res, hist>>

\* the process ends once nothing is left on the event loop
Exit ==
    /\ pc \in {"idle", "failed"}
    /\ tasks # << >>
    /\ Running = {} /\ Queued = {}
    /\ ResetRun
    /\ UNCHANGED <<browser, watcher, kf, box, cdc, dust, rt, downloads, file, kills, disk, remote, out, res, hist>>

\* the process is killed between two steps
Kill ==
    /\ ~Quiet
    /\ kills < MaxKills
    /\ kills' = kills + 1
    /\ ResetRun
    /\ hist' = [hist EXCEPT !.killed = TRUE]
    /\ UNCHANGED <<browser, watcher, kf, box, cdc, dust, rt, downloads, file, disk, remote, out, res>>

\* fs.writeFileSync truncates the file and then writes: a process killed in
\* between leaves a document that does not parse
InterruptedWrite(manifest) == Torn

\* the process is killed inside the saveManifest() of its next step
KillInSave ==
    /\ kills < MaxKills
    /\ kills' = kills + 1
    /\ \/ /\ CanStart
          /\ \E k \in ChunkSizes :
                /\ disk' = InterruptedWrite(OpenVersion(LoadManifest(disk), SHA256(file), Len(file)))
                /\ hist' = [HistAtStart(k) EXCEPT !.killed = TRUE]
          /\ UNCHANGED remote
       \/ /\ pc = "running" /\ fileOffset < Len(file)
          /\ ~ResumeSkip(currentVersionChunks, mem.pool, partNum)
          /\ DedupHit(mem.pool, MD5(ChunkAt(file, kb, fileOffset)))
          /\ disk' = InterruptedWrite(mem)
          /\ hist' = [hist EXCEPT !.killed = TRUE]
          /\ UNCHANGED remote
       \/ /\ Puts < MaxPuts
          /\ \E t \in Running :
                /\ remote' = RemotePut(remote, tasks[t].chunk)
                /\ disk' = InterruptedWrite(IF tasks[t].old THEN oldMem ELSE mem)
          /\ hist' = [hist EXCEPT !.killed = TRUE]
       \/ /\ AtAwait /\ AllFulfilled(tasks)
          /\ disk' = InterruptedWrite(mem)
          /\ hist' = [hist EXCEPT !.killed = TRUE]
          /\ UNCHANGED remote
    /\ ResetRun
    /\ UNCHANGED <<browser, watcher, kf, box, cdc, dust, rt, downloads, file, out, res>>

\* the edits of the scenarios: append or prepend a byte
Edits(f) ==
    {g \in {Append(f, b) : b \in Bytes} \cup {<<b>> \o f : b \in Bytes} : Len(g) <= MaxFileLen}

\* a sync of the current content has begun, and the manifest has room for
\* the version of another content
Synced ==
    /\ IsDoc(disk)
    /\ Len(disk.versions) \in 1..(MaxVersions - 1)
    /\ disk.versions[Len(disk.versions)].file_hash = SHA256(file)

\* the user edits the source file between two runs, after a sync of it
ModifyFile(f) ==
    /\ Quiet
    /\ NoRestoreYet
    /\ Synced
    /\ f \in Edits(file)
    /\ file' = f
    /\ UNCHANGED <<browser, watcher, kf, box, cdc, dust, rt, downloads, kills, disk, remote, pc, kb, mem, cvi, partNum, fileOffset, tasks,
                   oldMem, oldCvi, out, res, hist>>

\* the user brings the file back to a content that a version of the
\* manifest was opened for
RevertFile(f) ==
    /\ Quiet
    /\ NoRestoreYet
    /\ IsDoc(disk)
    /\ f # file
    /\ \E v \in 1..Len(disk.versions) : disk.versions[v].file_hash = SHA256(f)
    /\ file' = f
    /\ UNCHANGED <<browser, watcher, kf, box, cdc, dust, rt, downloads, kills, disk, remote, pc, kb, mem, cvi, partNum, fileOffset, tasks,
                   oldMem, oldCvi, out, res, hist>>

(* ----------------------- retry (FileDustSync.js) ---------------------- *)
\* the retries and delayMs arguments; the callers pass 3 and 2000, or 3 and
\* the default 1000
RetryCounts == 1..MaxRetries
Delays == {1000, 2000}

\* Math.random() * 500, a few values of [0, 500)
Jitters == {0, 250, 499}

\* a retry that sleeps after every failed attempt
WaitsAlways(i, retries) == TRUE

\* the catch block sleeps unless the attempt was the last one
WaitsAfter(i, retries) == i < retries - 1

\* retry(fn, retries, delayMs) is called
RetryCall(retries, delayMs) ==
    /\ rt.pc = "idle"
    /\ rt' = [NoRetry EXCEPT !.pc = "loop", !.retries = retries, !.delayMs = delayMs]
    /\ UNCHANGED <<browser, watcher, kf, box, cdc, dust, file, kills, disk, remote, pc, kb, mem, cvi, partNum, fileOffset, tasks,
                   oldMem, oldCvi, out, res, downloads, hist>>

\* i < retries and await fn() returns: retry returns that value
FnOk ==
    /\ rt.pc = "loop"
    /\ rt.i < rt.retries
    /\ rt' = [rt EXCEPT !.pc = "returned", !.calls = @ + 1, !.result = rt.calls + 1]
    /\ UNCHANGED <<browser, watcher, kf, box, cdc, dust, file, kills, disk, remote, pc, kb, mem, cvi, partNum, fileOffset, tasks,
                   oldMem, oldCvi, out, res, downloads, hist>>

\* i < retries and await fn() throws: console.warn, then the sleep or the
\* next iteration
FnThrows ==
    /\ rt.pc = "loop"
    /\ rt.i < rt.retries
    /\ rt' = IF WaitsAfter(rt.i, rt.retries)
             THEN [rt EXCEPT !.pc = "sleep", !.calls = @ + 1, !.warns = @ + 1]
             ELSE [rt EXCEPT !.i = @ + 1, !.calls = @ + 1, !.warns = @ + 1]
    /\ UNCHANGED <<browser, watcher, kf, box, cdc, dust, file, kills, disk, remote, pc, kb, mem, cvi, partNum, fileOffset, tasks,
                   oldMem, oldCvi, out, res, downloads, hist>>

\* setTimeout(resolve, delayMs + jitter) fires
Sleep(jitter) ==
    /\ rt.pc = "sleep"
    /\ rt' = [rt EXCEPT !.pc = "loop", !.i = @ + 1, !.waits = Append(@, rt.delayMs + jitter)]
    /\ UNCHANGED <<browser, watcher, kf, box, cdc, dust, file, kills, disk, remote, pc, kb, mem, cvi, partNum, fileOffset, tasks,
                   oldMem, oldCvi, out, res, downloads, hist>>

\* the loop ends: throw new Error
LoopExit ==
    /\ rt.pc = "loop"
    /\ rt.i >= rt.retries
    /\ rt' = [rt EXCEPT !.pc = "thrown"]
    /\ UNCHANGED <<browser, watcher, kf, box, cdc, dust, file, kills, disk, remote, pc, kb, mem, cvi, partNum, fileOffset, tasks,
                   oldMem, oldCvi, out, res, downloads, hist>>

(* ------------------ restoreFileSyncDust (FileDustSync.js) ------------- *)
\* the version restoreFileSyncDust picks; Null when find() finds none
VersionToRestore(manifest, targetVersion) ==
    IF targetVersion # 0
    THEN IF \E v \in 1..Len(manifest.versions) : manifest.versions[v].version = targetVersion
         THEN manifest.versions[CHOOSE v \in 1..Len(manifest.versions) :
                                    /\ manifest.versions[v].version = targetVersion
                                    /\ \A w \in 1..(v - 1) :
                                          manifest.versions[w].version # targetVersion]
         ELSE Null
    ELSE manifest.versions[Len(manifest.versions)]

\* a position for which a download task is created
Fetched(manifest, plainHash) == plainHash # Null /\ InPool(manifest.pool, plainHash)

\* one download task: what it stores in downloadedBuffers, unless it throws
DownloadTask(manifest, store, plainHash) ==
    LET decryptedChunk == decrypt(store[manifest.pool[plainHash].url], KeyOf(password))
    IN  IF decryptedChunk.ok /\ MD5(decryptedChunk.pt) = plainHash
        THEN decryptedChunk ELSE Throws

\* Buffer.concat(downloadedBuffers.filter(b => b)) from position i on
RECURSIVE ConcatBuffers(_, _, _, _)
ConcatBuffers(manifest, store, chunks, i) ==
    IF i > Len(chunks) THEN << >>
    ELSE IF Fetched(manifest, chunks[i])
         THEN DownloadTask(manifest, store, chunks[i]).pt \o ConcatBuffers(manifest, store, chunks, i + 1)
         ELSE ConcatBuffers(manifest, store, chunks, i + 1)

\* some download task throws
SomeTaskThrows(manifest, store, chunks) ==
    \E i \in 1..Len(chunks) :
        Fetched(manifest, chunks[i]) /\ ~DownloadTask(manifest, store, chunks[i]).ok

\* restoreFileSyncDust(manifestPath, targetVersion, password), the downloads
\* succeeding; it reads the manifest as any run's last save left it
Restore(targetVersion) ==
    /\ Quiet
    /\ NoRestoreYet
    /\ IF ~IsDoc(disk) \/ Len(disk.versions) = 0
          \/ VersionToRestore(disk, targetVersion) = Null
          \/ SomeTaskThrows(disk, remote, VersionToRestore(disk, targetVersion).chunks)
       THEN /\ res' = [status |-> "error", target |-> targetVersion]
            /\ UNCHANGED out
       ELSE LET ver == VersionToRestore(disk, targetVersion)
                finalBuffer == ConcatBuffers(disk, remote, ver.chunks, 1)
            IN  /\ out' = PoolSet(out, ver.version, finalBuffer)
                /\ res' = [status |-> IF SHA256(finalBuffer) = ver.file_hash
                                      THEN "ok" ELSE "mismatch",
                           target |-> targetVersion]
    /\ UNCHANGED <<browser, watcher, kf, box, cdc, dust, rt, downloads, file, kills, disk, remote, pc, kb, mem, cvi, partNum, fileOffset, tasks,
                   oldMem, oldCvi, hist>>

\* axios.get fails three times in a download task: restoreFileSyncDust throws
RestoreFail(targetVersion) ==
    /\ Quiet
    /\ NoRestoreYet
    /\ IsDoc(disk) /\ Len(disk.versions) > 0
    /\ VersionToRestore(disk, targetVersion) # Null
    /\ \E i \in 1..Len(VersionToRestore(disk, targetVersion).chunks) :
          Fetched(disk, VersionToRestore(disk, targetVersion).chunks[i])
    /\ res' = [status |-> "neterror", target |-> targetVersion]
    /\ UNCHANGED <<browser, watcher, kf, box, cdc, dust, rt, downloads, file, kills, disk, remote, pc, kb, mem, cvi, partNum, fileOffset, tasks,
                   oldMem, oldCvi, out, hist>>

\* targetVersion: 0 stands for null (any falsy value picks the last version)
Targets == 0..MaxVersions

(* ------- restoreFileSyncDust, one download task at a time -------------- *)
\* downloadLimit(fn): fn starts at once when fewer than downloadLimit tasks
\* run, else it waits in the queue
SubmitDownload(ts, index, plainHash) ==
    Append(ts, [part |-> index, plainHash |-> plainHash, buf |-> << >>,
                st |-> IF Cardinality(RunningIn(ts)) < downloadLimit THEN "running" ELSE "queued"])

\* chunks.map(...): a download task for every position that is set and in
\* the pool, Promise.resolve() for the others
RECURSIVE MapDownloads(_, _, _, _)
MapDownloads(manifest, chunks, i, ts) ==
    IF i > Len(chunks) THEN ts
    ELSE IF Fetched(manifest, chunks[i])
         THEN MapDownloads(manifest, chunks, i + 1, SubmitDownload(ts, i - 1, chunks[i]))
         ELSE MapDownloads(manifest, chunks, i + 1, ts)

Restoring == res.status = "running"

\* restoreFileSyncDust up to the creation of the download tasks
RestoreBegin(targetVersion) ==
    /\ Quiet
    /\ NoRestoreYet
    /\ IF ~IsDoc(disk) \/ Len(disk.versions) = 0
          \/ VersionToRestore(disk, targetVersion) = Null
       THEN /\ res' = [status |-> "error", target |-> targetVersion]
            /\ UNCHANGED downloads
       ELSE /\ res' = [status |-> "running", target |-> targetVersion]
            /\ downloads' = MapDownloads(disk, VersionToRestore(disk, targetVersion).chunks,
                                         1, << >>)
    /\ UNCHANGED <<browser, watcher, kf, box, cdc, dust, rt, file, kills, disk, remote, pc, kb, mem, cvi, partNum, fileOffset, tasks,
                   oldMem, oldCvi, out, hist>>

\* a download task gets its blob: decrypt and digest check; it stores the
\* plaintext in downloadedBuffers or throws
DownloadOk(t) ==
    /\ t \in RunningIn(downloads)
    /\ LET r == DownloadTask(disk, remote, downloads[t].plainHash)
       IN  downloads' = Settle([downloads EXCEPT ![t].buf = r.pt], t,
                               IF r.ok THEN "done" ELSE "failed")
    /\ UNCHANGED <<browser, watcher, kf, box, cdc, dust, rt, file, kills, disk, remote, pc, kb, mem, cvi, partNum, fileOffset, tasks,
                   oldMem, oldCvi, out, res, hist>>

\* retry(axios.get) throws after its last attempt: the task rejects
DownloadFail(t) ==
    /\ t \in RunningIn(downloads)
    /\ downloads' = Settle(downloads, t, "failed")
    /\ UNCHANGED <<browser, watcher, kf, box, cdc, dust, rt, file, kills, disk, remote, pc, kb, mem, cvi, partNum, fileOffset, tasks,
                   oldMem, oldCvi, out, res, hist>>

\* Buffer.concat(downloadedBuffers.filter(b => b)): the buffers by part
RECURSIVE ConcatDone(_, _)
ConcatDone(ts, t) ==
    IF t > Len(ts) THEN << >> ELSE ts[t].buf \o ConcatDone(ts, t + 1)

\* Promise.all(downloadTasks) rejects: restoreFileSyncDust throws
RestoreThrow ==
    /\ Restoring
    /\ \E t \in 1..Len(downloads) : downloads[t].st = "failed"
    /\ res' = [res EXCEPT !.status = "error"]
    /\ UNCHANGED <<browser, watcher, kf, box, cdc, dust, rt, file, kills, disk, remote, pc, kb, mem, cvi, partNum, fileOffset, tasks,
                   oldMem, oldCvi, out, downloads, hist>>

\* a Promise.any in the place of Promise.all
SomeDownloaded(ts) == \E t \in 1..Len(ts) : ts[t].st = "done"

\* await Promise.all(downloadTasks) fulfils
AllDownloaded(ts) == \A t \in 1..Len(ts) : ts[t].st = "done"

\* Promise.all(downloadTasks) fulfils: concat, writeFile, final hash check
RestoreWrite ==
    /\ Restoring
    /\ AllDownloaded(downloads)
    /\ LET ver == VersionToRestore(disk, res.target)
           finalBuffer == ConcatDone(downloads, 1)
       IN  /\ out' = PoolSet(out, ver.version, finalBuffer)
           /\ res' = [res EXCEPT !.status = IF SHA256(finalBuffer) = ver.file_hash
                                            THEN "ok" ELSE "mismatch"]
    /\ UNCHANGED <<browser, watcher, kf, box, cdc, dust, rt, file, kills, disk, remote, pc, kb, mem, cvi, partNum, fileOffset, tasks,
                   oldMem, oldCvi, downloads, hist>>

\* the restore process ends once no download task is left running
RestoreExit ==
    /\ res.status \notin {"none", "running"}
    /\ RunningIn(downloads) = {} /\ QueuedIn(downloads) = {}
    /\ res' = NoRes
    /\ downloads' = << >>
    /\ UNCHANGED <<browser, watcher, kf, box, cdc, dust, rt, file, kills, disk, remote, pc, kb, mem, cvi, partNum, fileOffset,
                   tasks, oldMem, oldCvi, out, hist>>

(* ------------- uploadToDust (FileDustUploader.js), in one step --------- *)
\* previousChunksMap: the descriptors of the existing manifest by
\* plain_hash, a later descriptor replacing an earlier one
previousChunksMap(existing) ==
    IF IsDoc(existing)
    THEN [ph \in {existing.chunks[x].plain_hash : x \in 1..Len(existing.chunks)} |->
             existing.chunks[CHOOSE x \in 1..Len(existing.chunks) :
                                /\ existing.chunks[x].plain_hash = ph
                                /\ \A y \in (x + 1)..Len(existing.chunks) :
                                      existing.chunks[y].plain_hash # ph]]
    ELSE << >>

\* manifest.chunks.push(chunkResult) followed by the sort of saveManifest()
RECURSIVE PushSorted(_, _)
PushSorted(chunks, chunkResult) ==
    IF chunks = << >> \/ chunks[Len(chunks)].part <= chunkResult.part
    THEN Append(chunks, chunkResult)
    ELSE Append(PushSorted(SubSeq(chunks, 1, Len(chunks) - 1), chunkResult), chunks[Len(chunks)])

\* the read loop of uploadToDust, each upload task completing before the
\* next chunk is read
RECURSIVE UploadLoop(_, _, _, _, _)
UploadLoop(manifest, previous, store, chunks, currentPartNum) ==
    IF currentPartNum >= Len(chunks) THEN [manifest |-> manifest, store |-> store]
    ELSE LET actualChunk == chunks[currentPartNum + 1]
             plainHash == MD5(actualChunk)
             downloadUrl == NewUrl(store, actualChunk)
         IN  IF \E x \in 1..Len(manifest.chunks) : manifest.chunks[x].part = currentPartNum
             THEN UploadLoop(manifest, previous, store, chunks, currentPartNum + 1)
             ELSE IF plainHash \in DOMAIN previous
             THEN UploadLoop([manifest EXCEPT !.chunks =
                                 PushSorted(@, [part |-> currentPartNum,
                                                hash |-> previous[plainHash].hash,
                                                plain_hash |-> plainHash,
                                                url |-> previous[plainHash].url])],
                             previous, store, chunks, currentPartNum + 1)
             ELSE UploadLoop([manifest EXCEPT !.chunks =
                                 PushSorted(@, [part |-> currentPartNum,
                                                hash |-> MD5(RemotePut(store, actualChunk)[downloadUrl]),
                                                plain_hash |-> plainHash,
                                                url |-> downloadUrl])],
                             previous, RemotePut(store, actualChunk), chunks, currentPartNum + 1)

\* what a whole run of uploadToDust leaves
uploadToDust(existing, store, data, chunkSizeKB) ==
    UploadLoop(IF IsDoc(existing) /\ existing.file_hash = SHA256(data)
               THEN existing
               ELSE [file_hash |-> SHA256(data), total_size |-> Len(data), chunks |-> << >>],
               previousChunksMap(existing), store, ChunksFrom(data, chunkSizeKB, 0), 0)

\* uploadToDust(filePath, password, chunkSizeKB) runs to its end
UploadToDust(chunkSizeKB) ==
    /\ Quiet
    /\ NoRestoreYet
    /\ LET r == uploadToDust(dust, remote, file, chunkSizeKB)
       IN  /\ Cardinality(DOMAIN r.store) <= MaxPuts
           /\ r.manifest # dust
           /\ dust' = r.manifest
           /\ remote' = r.store
    /\ UNCHANGED <<browser, watcher, kf, box, cdc, rt, file, kills, disk, pc, kb, mem, cvi, partNum, fileOffset, tasks,
                   oldMem, oldCvi, out, res, downloads, hist>>

\* the process is killed during uploadToDust, after n chunks of the read loop
\* have been handled: the manifest file holds what was saved until then
UploadToDustKilled(chunkSizeKB, n) ==
    /\ Quiet
    /\ NoRestoreYet
    /\ kills < MaxKills
    /\ n < Len(ChunksFrom(file, chunkSizeKB, 0))
    /\ LET existing == IF IsDoc(dust) /\ dust.file_hash = SHA256(file)
                        THEN dust
                        ELSE [file_hash |-> SHA256(file), total_size |-> Len(file),
                              chunks |-> << >>]
           r == UploadLoop(existing, previousChunksMap(dust), remote,
                           SubSeq(ChunksFrom(file, chunkSizeKB, 0), 1, n), 0)
       IN  /\ Cardinality(DOMAIN r.store) <= MaxPuts
           /\ dust' = r.manifest
           /\ remote' = r.store
    /\ kills' = kills + 1
    /\ UNCHANGED <<browser, watcher, kf, box, cdc, rt, file, disk, pc, kb, mem, cvi, partNum, fileOffset, tasks,
                   oldMem, oldCvi, out, res, downloads, hist>>

\* the user edits the source file after an upload of it by uploadToDust
ModifyUploaded(f) ==
    /\ Quiet
    /\ NoRestoreYet
    /\ IsDoc(dust)
    /\ dust.file_hash = SHA256(file)
    /\ f \in Edits(file)
    /\ file' = f
    /\ UNCHANGED <<browser, watcher, kf, box, cdc, dust, rt, downloads, kills, disk, remote, pc, kb, mem, cvi, partNum,
                   fileOffset, tasks, oldMem, oldCvi, out, res, hist>>

(* ----------- downloadFromDust (FileDustMerger.js), in one step --------- *)
\* the sequential loop over the chunks: what was written to the temp file,
\* unless a chunk failed its hash check or its decryption
RECURSIVE MergeLoop(_, _, _)
MergeLoop(chunks, store, i) ==
    IF i > Len(chunks) THEN [ok |-> TRUE, pt |-> << >>]
    ELSE LET netData == store[chunks[i].url]
             decryptedChunk == decrypt(netData, KeyOf(password))
             rest == MergeLoop(chunks, store, i + 1)
         IN  IF MD5(netData) # chunks[i].hash \/ ~decryptedChunk.ok \/ ~rest.ok
             THEN Throws
             ELSE [ok |-> TRUE, pt |-> decryptedChunk.pt \o rest.pt]

\* downloadFromDust(manifestPath, password): on a failure the temp file is
\* removed and the function returns; else the temp file is renamed
DownloadFromDust(netOk) ==
    /\ Quiet
    /\ NoRestoreYet
    /\ IsDoc(dust)
    /\ netOk \/ dust.chunks # << >>
    /\ LET r == MergeLoop(dust.chunks, remote, 1)
       IN  IF netOk /\ r.ok
           THEN /\ out' = PoolSet(out, 0, r.pt)
                /\ res' = [status |-> "merged", target |-> 0]
           ELSE /\ res' = [status |-> "aborted", target |-> 0]
                /\ UNCHANGED out
    /\ UNCHANGED <<browser, watcher, kf, box, cdc, dust, rt, file, kills, disk, remote, pc, kb, mem, cvi, partNum, fileOffset,
                   tasks, oldMem, oldCvi, downloads, hist>>

(* ------------- FastCDC.chunk and the uploaders' read window ------------ *)
\* the configurations with minSize <= avgSize <= maxSize up to MaxSize, and
\* the ones the uploaders derive from chunkSizeKB; avgSize is at least 1:
\* for avgSize = 0 the constructor itself throws (BigInt(-Infinity))
Configs ==
    {FastCDCConfig(c[1], c[2], c[3]) :
        c \in {t \in (0..MaxSize) \X (1..MaxSize) \X (1..MaxSize) : t[1] <= t[2] /\ t[2] <= t[3]}}
    \cup {CdcConfig(k) : k \in ChunkSizes}

\* a loop that does not advance is followed for this many boundaries
ChunkCapped(bs, data) == Len(bs) > Len(data)

\* chunk(data): one turn of the while loop
ChunkStep ==
    /\ cdc.pc = "chunking"
    /\ cdc.offset < Len(cdc.data)
    /\ ~ChunkCapped(cdc.boundaries, cdc.data)
    /\ LET chunkLen == getChunkSize(cdc.config, cdc.data, cdc.offset, Len(cdc.data) - cdc.offset)
       IN  cdc' = [cdc EXCEPT !.offset = @ + chunkLen,
                              !.boundaries = Append(@, cdc.offset + chunkLen)]
    /\ UNCHANGED <<browser, watcher, kf, box, dust, rt, file, kills, disk, remote, pc, kb, mem, cvi, partNum, fileOffset,
                   tasks, oldMem, oldCvi, out, res, downloads, hist>>

\* chunk(data): the loop ends, boundaries is returned
ChunkReturn ==
    /\ cdc.pc = "chunking"
    /\ cdc.offset >= Len(cdc.data)
    /\ cdc' = [cdc EXCEPT !.pc = "done", !.wpc = "reading"]
    /\ UNCHANGED <<browser, watcher, kf, box, dust, rt, file, kills, disk, remote, pc, kb, mem, cvi, partNum, fileOffset,
                   tasks, oldMem, oldCvi, out, res, downloads, hist>>

\* the window of the truncated look-ahead, as the mutation of Window
ShortWindow(data, offset, maxSize) ==
    SubSeq(data, offset + 1, offset + Min(maxSize \div 2, Len(data) - offset))

\* fileHandle.read(readBuffer, 0, toRead, fileOffset): at most maxSize bytes
\* at the offset
Window(data, offset, maxSize) ==
    SubSeq(data, offset + 1, offset + Min(maxSize, Len(data) - offset))

\* the uploaders' read loop on the same input: one turn
ReadWindow ==
    /\ cdc.wpc = "reading" \/ (cdc.pc = "chunking" /\ ChunkCapped(cdc.boundaries, cdc.data))
    /\ cdc.woffset < Len(cdc.data)
    /\ ~ChunkCapped(cdc.wboundaries, cdc.data)
    /\ LET readBuffer == Window(cdc.data, cdc.woffset, cdc.config.maxSize)
           chunkLen == getChunkSize(cdc.config, readBuffer, 0, Len(readBuffer))
       IN  cdc' = [cdc EXCEPT !.wpc = "reading",
                              !.woffset = @ + chunkLen,
                              !.wboundaries = Append(@, cdc.woffset + chunkLen)]
    /\ UNCHANGED <<browser, watcher, kf, box, dust, rt, file, kills, disk, remote, pc, kb, mem, cvi, partNum, fileOffset,
                   tasks, oldMem, oldCvi, out, res, downloads, hist>>

\* the read loop ends at the end of the file
ReadEnd ==
    /\ cdc.wpc = "reading"
    /\ cdc.woffset >= Len(cdc.data)
    /\ cdc' = [cdc EXCEPT !.wpc = "done"]
    /\ UNCHANGED <<browser, watcher, kf, box, dust, rt, file, kills, disk, remote, pc, kb, mem, cvi, partNum, fileOffset,
                   tasks, oldMem, oldCvi, out, res, downloads, hist>>

(* ------------------ encrypt and decrypt (CryptoUtils) ------------------ *)
\* keys of two passphrases, and values of crypto.randomBytes(IV_LENGTH)
Keys == {KeyOf(p) : p \in {"pw", "other"}}
IVs == {1, 2}

\* chunkSizeKB arguments down to the smallest for which the FastCDCConfig
\* constructor does not throw, and the configurations derived from them
UploaderConfigs == {CdcConfig(k) : k \in (2..(2 * MaxSize)) \cup ChunkSizes}

\* actualChunk of the first turn of the read loop on a content
FirstChunk(data, config) ==
    LET readBuffer == Window(data, 0, config.maxSize)
    IN  SubSeq(readBuffer, 1, getChunkSize(config, readBuffer, 0, Len(readBuffer)))

\* the plaintexts that the uploaders pass to encrypt: every offset of a
\* file is offset 0 of a shorter file
EmittedChunks == {FirstChunk(d, c) : d \in LongFiles \ {<< >>}, c \in UploaderConfigs}

\* encrypt(data, key, {returnBuffer: true})
Encrypt(iv) ==
    /\ box.pc = "plain"
    /\ box' = [box EXCEPT !.pc = "packed", !.packed = encrypt(box.data, box.key, iv)]
    /\ UNCHANGED <<browser, watcher, kf, cdc, dust, rt, file, kills, disk, remote, pc, kb, mem, cvi, partNum, fileOffset,
                   tasks, oldMem, oldCvi, out, res, downloads, hist>>

\* the packed buffer is cut down to its iv and authTag
Truncate ==
    /\ box.pc = "packed"
    /\ box.packed.pt # << >>
    /\ box' = [box EXCEPT !.packed = [@ EXCEPT !.pt = << >>, !.ok = FALSE]]
    /\ UNCHANGED <<browser, watcher, kf, cdc, dust, rt, file, kills, disk, remote, pc, kb, mem, cvi, partNum, fileOffset,
                   tasks, oldMem, oldCvi, out, res, downloads, hist>>

\* decrypt(cipherText, key, {autoJson: false})
Decrypt(key) ==
    /\ box.pc = "packed"
    /\ box' = [box EXCEPT !.pc = "done", !.with = key, !.result = decrypt(box.packed, key)]
    /\ UNCHANGED <<browser, watcher, kf, cdc, dust, rt, file, kills, disk, remote, pc, kb, mem, cvi, partNum, fileOffset,
                   tasks, oldMem, oldCvi, out, res, downloads, hist>>

(* ------------------- loadOrGenerateKey (CryptoUtils) ------------------ *)
\* the passphrase arguments, the empty string among them, and values of
\* crypto.randomBytes(SALT_LENGTH)
Passphrases == {"", "pw", "other"}
Salts == {1, 2}

\* salt.toString('base64') and Buffer.from(saltBase64, 'base64')
ToBase64(salt) == [base64 |-> salt]
FromBase64(saltBase64) == saltBase64.base64

\* crypto.scrypt(password, salt, KEY_LENGTH, ...): a function of both
Scrypt(pw, salt) == [scrypt |-> pw, salt |-> salt]

\* a check that never finds salt.json, as the mutation of SaltExists
SaltNeverExists(f) == FALSE

\* existsSync(keyFile)
SaltExists(f) == f # NoFile

\* loadOrGenerateKey(password) is called; existsSync picks the branch
KeyCall(pw) ==
    /\ kf.pc = "idle"
    /\ Len(kf.returned) < MaxCalls
    /\ kf' = [kf EXCEPT !.pc = IF SaltExists(kf.file) THEN "read" ELSE "generate",
                        !.password = pw]
    /\ UNCHANGED <<browser, watcher, box, cdc, dust, rt, file, kills, disk, remote, pc, kb, mem, cvi, partNum,
                   fileOffset, tasks, oldMem, oldCvi, out, res, downloads, hist>>

\* salt.json exists: readFile, JSON.parse, generateKeyFromPassword with the
\* stored salt; a file that does not parse and an empty passphrase throw
KeyRead ==
    /\ kf.pc = "read"
    /\ IF kf.file = Torn \/ kf.file = NoFile \/ kf.password = ""
       THEN kf' = [kf EXCEPT !.pc = "idle"]
       ELSE kf' = [kf EXCEPT !.pc = "idle",
                             !.returned = Append(@, [password |-> kf.password,
                                  key |-> Scrypt(kf.password, FromBase64(kf.file.salt))])]
    /\ UNCHANGED <<browser, watcher, box, cdc, dust, rt, file, kills, disk, remote, pc, kb, mem, cvi, partNum,
                   fileOffset, tasks, oldMem, oldCvi, out, res, downloads, hist>>

\* salt.json is absent: generateKeyFromPassword(password) draws a salt; an
\* empty passphrase throws
KeyGenerate(salt) ==
    /\ kf.pc = "generate"
    /\ IF kf.password = ""
       THEN kf' = [kf EXCEPT !.pc = "idle"]
       ELSE kf' = [kf EXCEPT !.pc = "write", !.salt = salt]
    /\ UNCHANGED <<browser, watcher, box, cdc, dust, rt, file, kills, disk, remote, pc, kb, mem, cvi, partNum,
                   fileOffset, tasks, oldMem, oldCvi, out, res, downloads, hist>>

\* writeFile(keyFile, JSON.stringify({salt})), then the key is returned
KeyWrite ==
    /\ kf.pc = "write"
    /\ kf' = [kf EXCEPT !.pc = "idle",
                        !.file = [salt |-> ToBase64(kf.salt)],
                        !.returned = Append(@, [password |-> kf.password,
                                                key |-> Scrypt(kf.password, kf.salt)])]
    /\ UNCHANGED <<browser, watcher, box, cdc, dust, rt, file, kills, disk, remote, pc, kb, mem, cvi, partNum,
                   fileOffset, tasks, oldMem, oldCvi, out, res, downloads, hist>>

\* the process is killed during a call; during writeFile the file may be
\* left unwritten, partly written or written
KeyKill ==
    /\ kf.pc # "idle"
    /\ kf.kills < MaxKills
    /\ \E f \in IF kf.pc = "write" THEN {kf.file, Torn, [salt |-> ToBase64(kf.salt)]}
                 ELSE {kf.file} :
          kf' = [kf EXCEPT !.pc = "idle", !.kills = @ + 1, !.file = f]
    /\ UNCHANGED <<browser, watcher, box, cdc, dust, rt, file, kills, disk, remote, pc, kb, mem, cvi, partNum,
                   fileOffset, tasks, oldMem, oldCvi, out, res, downloads, hist>>

(* ------------------- the watcher script (watchsync.js) ----------------- *)
\* a triggerSync without its guard, as the mutation of Busy
NeverBusy(watch) == FALSE

\* if (isSyncing) ... return
Busy(watch) == watch.isSyncing

\* the file is changed: the operating system reports one change event, or
\* two for one save
FileChange(n) ==
    /\ watcher.changes < MaxChanges
    /\ watcher' = [watcher EXCEPT !.changes = @ + 1, !.events = @ + n]
    /\ UNCHANGED <<browser, kf, box, cdc, dust, rt, file, kills, disk, remote, pc, kb, mem, cvi, partNum,
                   fileOffset, tasks, oldMem, oldCvi, out, res, downloads, hist>>

\* fs.watch calls back with 'change': the timer is cleared and set again
WatchCallback ==
    /\ watcher.events > 0
    /\ watcher' = [watcher EXCEPT !.events = @ - 1, !.syncTimeout = TRUE]
    /\ UNCHANGED <<browser, kf, box, cdc, dust, rt, file, kills, disk, remote, pc, kb, mem, cvi, partNum,
                   fileOffset, tasks, oldMem, oldCvi, out, res, downloads, hist>>

\* the timer fires after 1500 ms: triggerSync() up to its await; it returns
\* at once when a sync is running, else it calls syncFileToDust, which
\* reads the file as it is now
TimerFires ==
    /\ watcher.syncTimeout
    /\ IF Busy(watcher)
       THEN watcher' = [watcher EXCEPT !.syncTimeout = FALSE, !.skippedAt = watcher.changes]
       ELSE watcher' = [watcher EXCEPT !.syncTimeout = FALSE, !.isSyncing = TRUE, !.running = @ + 1,
                           !.covers = watcher.changes, !.syncs = @ + 1]
    /\ UNCHANGED <<browser, kf, box, cdc, dust, rt, file, kills, disk, remote, pc, kb, mem, cvi, partNum,
                   fileOffset, tasks, oldMem, oldCvi, out, res, downloads, hist>>

\* syncFileToDust returns or throws: catch, then finally isSyncing = false
SyncEnd(ok) ==
    /\ watcher.running > 0
    /\ watcher' = [watcher EXCEPT !.running = @ - 1, !.isSyncing = FALSE,
                       !.threw = IF ok THEN @ ELSE @ + 1]
    /\ UNCHANGED <<browser, kf, box, cdc, dust, rt, file, kills, disk, remote, pc, kb, mem, cvi, partNum,
                   fileOffset, tasks, oldMem, oldCvi, out, res, downloads, hist>>

(* --------------------- the Dust Browser (DustBrowser.js) --------------- *)
\* manifest.chunks.sort((a, b) => a.part - b.part)
RECURSIVE SortByPart(_)
SortByPart(chunks) ==
    IF chunks = << >> THEN << >>
    ELSE PushSorted(SortByPart(SubSeq(chunks, 1, Len(chunks) - 1)), chunks[Len(chunks)])

\* info.manifest.chunks.find(c => c.part === index)
HasPart(chunks, index) == \E x \in 1..Len(chunks) : chunks[x].part = index
FindPart(chunks, index) == chunks[CHOOSE x \in 1..Len(chunks) : chunks[x].part = index]

\* info.chunkCache.has(index), info.chunkCache.get(index)
CacheHas(chunkCache, index) == \E x \in 1..Len(chunkCache) : chunkCache[x].index = index
CacheGet(chunkCache, index) ==
    chunkCache[CHOOSE x \in 1..Len(chunkCache) : chunkCache[x].index = index].data

\* info.chunkCache.set(index, decrypted): a Map keeps its keys in insertion
\* order, and a key that is set again keeps its place
CacheSet(chunkCache, index, decrypted) ==
    IF CacheHas(chunkCache, index)
    THEN [x \in 1..Len(chunkCache) |->
             IF chunkCache[x].index = index
             THEN [index |-> index, data |-> decrypted] ELSE chunkCache[x]]
    ELSE Append(chunkCache, [index |-> index, data |-> decrypted])

\* info.pendingRequests.has(index)
PendingHas(pendingRequests, index) == \E r \in pendingRequests : r.index = index

\* a cache that is never found full, as the mutation of CacheFull
CacheNeverFull(chunkCache) == FALSE

\* if (info.chunkCache.size >= MAX_CACHE_SIZE)
CacheFull(chunkCache) == Len(chunkCache) >= MAX_CACHE_SIZE

\* getDecryptedChunk(index) up to its first await: nothing to do for a
\* cached or pending index; else the request is started and recorded
StartRequest(b, index) ==
    IF CacheHas(b.chunkCache, index) \/ PendingHas(b.pendingRequests, index)
       \/ ~HasPart(b.chunks, index)
    THEN b
    ELSE [b EXCEPT !.pendingRequests =
             @ \cup {[index |-> index, pc |-> "fetching", data |-> << >>]}]

\* the chunk promise of an index is rejected: the catch handler removes the
\* pending request and whoever awaits it sees the error
Reject(b, index, network) ==
    [b EXCEPT !.pendingRequests = {r \in @ : r.index # index},
              !.netFailed = @ \/ network,
              !.loaded = IF @ = "init" /\ index = 0 THEN "no" ELSE @,
              !.stream = IF @.pc = "wait" /\ @.chunkIndex = index
                         THEN [@ EXCEPT !.pc = "ended", !.errored = TRUE] ELSE @]

\* the first call of getOrInitManifestInfo: the manifest is read, its chunks
\* sorted, and chunk 0 requested to gauge the chunk size
BrowserLoad ==
    /\ browser.loaded = "no"
    /\ IsDoc(dust)
    /\ HasPart(dust.chunks, 0)
    /\ browser' = StartRequest([browser EXCEPT !.loaded = "init",
                                               !.chunks = SortByPart(dust.chunks),
                                               !.total_size = dust.total_size,
                                               !.chunkCache = << >>,
                                               !.pendingRequests = {}], 0)
    /\ UNCHANGED <<watcher, kf, box, cdc, dust, rt, file, kills, disk, remote, pc, kb, mem, cvi, partNum,
                   fileOffset, tasks, oldMem, oldCvi, out, res, downloads, hist>>

\* another request of the server calls getDecryptedChunk(index)
Request(index) ==
    /\ browser.loaded = "yes"
    /\ HasPart(browser.chunks, index)
    /\ ~CacheHas(browser.chunkCache, index)
    /\ ~PendingHas(browser.pendingRequests, index)
    /\ browser' = StartRequest(browser, index)
    /\ UNCHANGED <<watcher, kf, box, cdc, dust, rt, file, kills, disk, remote, pc, kb, mem, cvi, partNum,
                   fileOffset, tasks, oldMem, oldCvi, out, res, downloads, hist>>

\* axios.get returns the blob: hash verification and decryption, up to the
\* await of the decrypted buffer
FetchOk(index) ==
    /\ \E r \in browser.pendingRequests : r.index = index /\ r.pc = "fetching"
    /\ LET chunkInfo == FindPart(browser.chunks, index)
           netData == remote[chunkInfo.url]
           decrypted == decrypt(netData, KeyOf(password))
       IN  IF MD5(netData) # chunkInfo.hash \/ ~decrypted.ok
           THEN browser' = Reject(browser, index, FALSE)
           ELSE browser' = [browser EXCEPT !.pendingRequests =
                               {IF r.index = index
                                THEN [r EXCEPT !.pc = "decrypted", !.data = decrypted.pt]
                                ELSE r : r \in @}]
    /\ UNCHANGED <<watcher, kf, box, cdc, dust, rt, file, kills, disk, remote, pc, kb, mem, cvi, partNum,
                   fileOffset, tasks, oldMem, oldCvi, out, res, downloads, hist>>

\* axios.get fails or times out after 30 s
FetchFail(index) ==
    /\ \E r \in browser.pendingRequests : r.index = index /\ r.pc = "fetching"
    /\ browser' = Reject(browser, index, TRUE)
    /\ UNCHANGED <<watcher, kf, box, cdc, dust, rt, file, kills, disk, remote, pc, kb, mem, cvi, partNum,
                   fileOffset, tasks, oldMem, oldCvi, out, res, downloads, hist>>

\* the rest of the chunk promise: the oldest entry is evicted from a full
\* cache, the chunk is cached, the pending request removed, and the promise
\* resolves for getOrInitManifestInfo (chunk 0) and for a waiting stream
Store(index) ==
    \E r \in browser.pendingRequests :
        /\ r.index = index
        /\ r.pc = "decrypted"
        /\ browser' =
              [browser EXCEPT
                  !.chunkCache = CacheSet(IF CacheFull(@) THEN Tail(@) ELSE @, index, r.data),
                  !.pendingRequests = @ \ {r},
                  !.chunkSize = IF browser.loaded = "init" /\ index = 0 THEN Len(r.data) ELSE @,
                  !.loaded = IF @ = "init" /\ index = 0 THEN "yes" ELSE @,
                  !.stream = IF @.pc = "wait" /\ @.chunkIndex = index
                             THEN [@ EXCEPT !.pc = "got", !.got = r.data] ELSE @]
        /\ UNCHANGED <<watcher, kf, box, cdc, dust, rt, file, kills, disk, remote, pc, kb, mem, cvi, partNum,
                       fileOffset, tasks, oldMem, oldCvi, out, res, downloads, hist>>

\* no Range header
NoRange == [start |-> -1, end |-> -1]

\* the Range headers "bytes=start-" (end -1) and "bytes=start-end" on a
\* file of totalSize bytes, the end possibly beyond the file
Ranges(totalSize) ==
    {[start |-> s, end |-> e] : s \in 0..(totalSize - 1), e \in -1..MaxSize} \
        {rg \in [start : 0..(totalSize - 1), end : -1..MaxSize] : rg.end # -1 /\ rg.end < rg.start}

\* GET /stream up to its loop: start, end and the Content-Length header
StreamBegin(range) ==
    /\ browser.loaded = "yes"
    /\ browser.stream.pc = "none"
    /\ LET totalSize == browser.total_size
           requestedEnd == IF range.end # -1 THEN range.end ELSE totalSize - 1
           start == IF range = NoRange THEN 0 ELSE range.start
           end == IF range = NoRange THEN totalSize - 1 ELSE Min(requestedEnd, totalSize - 1)
       IN  browser' = [browser EXCEPT !.stream =
                          [@ EXCEPT !.pc = "loop", !.start = start, !.end = end,
                                    !.announced = IF range = NoRange THEN totalSize
                                                  ELSE end - start + 1,
                                    !.currentOffset = start]]
    /\ UNCHANGED <<watcher, kf, box, cdc, dust, rt, file, kills, disk, remote, pc, kb, mem, cvi, partNum,
                   fileOffset, tasks, oldMem, oldCvi, out, res, downloads, hist>>

\* one test of the while loop and, in the loop, the call of
\* getDecryptedChunk(chunkIndex); a chunk that is not in the manifest, or a
\* chunk size of 0, throws, and the catch ends the response
StreamTurn ==
    /\ browser.stream.pc = "loop"
    /\ LET st == browser.stream
           chunkIndex == st.currentOffset \div browser.chunkSize
       IN  IF st.currentOffset > st.end \/ st.aborted
           THEN browser' = [browser EXCEPT !.stream.pc = "ended"]
           ELSE IF browser.chunkSize = 0 \/ ~HasPart(browser.chunks, chunkIndex)
           THEN browser' = [browser EXCEPT !.stream.pc = "ended", !.stream.errored = TRUE]
           ELSE IF CacheHas(browser.chunkCache, chunkIndex)
           THEN browser' = [browser EXCEPT !.stream.pc = "got",
                                           !.stream.chunkIndex = chunkIndex,
                                           !.stream.got = CacheGet(browser.chunkCache, chunkIndex)]
           ELSE browser' = [StartRequest(browser, chunkIndex) EXCEPT
                               !.stream.pc = "wait", !.stream.chunkIndex = chunkIndex]
    /\ UNCHANGED <<watcher, kf, box, cdc, dust, rt, file, kills, disk, remote, pc, kb, mem, cvi, partNum,
                   fileOffset, tasks, oldMem, oldCvi, out, res, downloads, hist>>

\* buf.subarray(begin, end): both ends are clamped to the buffer
Subarray(buf, begin, end) == SubSeq(buf, Min(begin, Len(buf)) + 1, Min(end, Len(buf)))

\* the rest of the loop body after the await: the slice of the chunk is
\* written and currentOffset advanced by its length
StreamWrite ==
    /\ browser.stream.pc = "got"
    /\ LET st == browser.stream
           decryptedChunk == st.got
           chunkStartOffset == st.chunkIndex * browser.chunkSize
           sliceStart == st.currentOffset - chunkStartOffset
           sliceEnd == Min(Len(decryptedChunk), (st.end - chunkStartOffset) + 1)
           slice == Subarray(decryptedChunk, sliceStart, sliceEnd)
       IN  browser' = [browser EXCEPT !.stream =
                          [@ EXCEPT !.pc = "loop", !.written = @ \o slice,
                                    !.currentOffset = @ + Len(slice),
                                    !.wroteAfterClose = @ \/ st.aborted]]
    /\ UNCHANGED <<watcher, kf, box, cdc, dust, rt, file, kills, disk, remote, pc, kb, mem, cvi, partNum,
                   fileOffset, tasks, oldMem, oldCvi, out, res, downloads, hist>>

\* req.on('close'): the client disconnects
ClientClose ==
    /\ browser.stream.pc \in {"loop", "wait", "got"}
    /\ ~browser.stream.aborted
    /\ browser' = [browser EXCEPT !.stream.aborted = TRUE]
    /\ UNCHANGED <<watcher, kf, box, cdc, dust, rt, file, kills, disk, remote, pc, kb, mem, cvi, partNum,
                   fileOffset, tasks, oldMem, oldCvi, out, res, downloads, hist>>

(* ------------------------------ tampering ------------------------------ *)
\* a bit of an envelope is flipped: the GCM tag no longer verifies
FlipBit(env) == [env EXCEPT !.ok = FALSE]

\* a blob of the store is corrupted between a sync and a restore
CorruptBlob(url) ==
    /\ Quiet
    /\ NoRestoreYet
    /\ url \in DOMAIN remote
    /\ remote[url].ok
    /\ remote' = [remote EXCEPT ![url] = FlipBit(@)]
    /\ UNCHANGED <<browser, watcher, kf, box, cdc, dust, rt, file, kills, disk, pc, kb, mem, cvi, partNum, fileOffset, tasks,
                   oldMem, oldCvi, out, res, downloads, hist>>

\* the gateway serves, under a url, another envelope of the same chunk: a
\* valid encryption under the same key with another iv
SwapBlob(url) ==
    /\ Quiet
    /\ NoRestoreYet
    /\ url \in DOMAIN remote
    /\ remote[url].ok
    /\ remote[url].iv # 0
    /\ remote' = [remote EXCEPT ![url] = encrypt(@.pt, @.key, 0)]
    /\ UNCHANGED <<browser, watcher, kf, box, cdc, dust, rt, file, kills, disk, pc, kb, mem, cvi, partNum, fileOffset, tasks,
                   oldMem, oldCvi, out, res, downloads, hist>>

\* a digest of a version's chunks is replaced by another key of the pool
ReplaceDigest(v, i, ph) ==
    /\ Quiet
    /\ NoRestoreYet
    /\ IsDoc(disk)
    /\ v \in 1..Len(disk.versions)
    /\ i \in 1..Len(disk.versions[v].chunks)
    /\ ph \in DOMAIN disk.pool
    /\ disk.versions[v].chunks[i] # ph
    /\ disk' = [disk EXCEPT !.versions[v].chunks[i] = ph]
    /\ UNCHANGED <<browser, watcher, kf, box, cdc, dust, rt, file, kills, remote, pc, kb, mem, cvi, partNum, fileOffset, tasks,
                   oldMem, oldCvi, out, res, downloads, hist>>

Next ==
    \/ \E k \in ChunkSizes : Start(k)
    \/ ReadChunk
    \/ \E t \in 1..Len(tasks) : PutOk(t)
    \/ \E t \in 1..Len(tasks) : PutFail(t)
    \/ Finish
    \/ Throw
    \/ Exit
    \/ Kill
    \/ KillInSave
    \/ \E f \in Files : ModifyFile(f)

Spec == Init /\ [][Next]_vars

\* the sync runs of Spec, and then one restoreFileSyncDust
NextRestore ==
    \/ Next
    \/ \E v \in Targets : Restore(v)
    \/ \E v \in Targets : RestoreFail(v)

SpecRestore == Init /\ [][NextRestore]_vars

\* the sync runs of Spec, with edits that undo an earlier edit
NextRevert ==
    \/ Next
    \/ \E f \in Files : RevertFile(f)

SpecRevert == Init /\ [][NextRevert]_vars

\* one process that calls syncFileToDust on an unchanged file, and again
\* after a call threw
NextRerun ==
    \/ \E k \in ChunkSizes : Start(k)
    \/ \E k \in ChunkSizes : Rerun(k)
    \/ ReadChunk
    \/ \E t \in 1..Len(tasks) : PutOk(t)
    \/ \E t \in 1..Len(tasks) : PutFail(t)
    \/ Finish
    \/ Throw
    \/ Exit

SpecRerun == Init /\ [][NextRerun]_vars

\* the upload pipeline alone: runs that nothing interrupts, on files long
\* enough to fill uploadLimit and its queue
InitPipeline ==
    /\ file \in LongFiles
    /\ kills = 0
    /\ disk = NoFile
    /\ remote = << >>
    /\ pc = "idle"
    /\ kb = 0
    /\ mem = EmptyManifest
    /\ cvi = -1
    /\ partNum = 0
    /\ fileOffset = 0
    /\ tasks = << >>
    /\ oldMem = EmptyManifest
    /\ oldCvi = -1
    /\ out = << >>
    /\ res = NoRes
    /\ downloads = << >>
    /\ rt = NoRetry
    /\ dust = NoFile
    /\ cdc = NoCdc
    /\ box = NoBox
    /\ kf = NoKey
    /\ watcher = NoWatch
    /\ browser = NoBrowser
    /\ hist = NoHist

NextPipeline ==
    \/ \E k \in ChunkSizes : Start(k)
    \/ ReadChunk
    \/ \E t \in 1..Len(tasks) : PutOk(t)
    \/ Finish
    \/ \E f \in Files : ModifyFile(f)

SpecPipeline == InitPipeline /\ [][NextPipeline]_vars

\* the upload pipeline, and then one restoreFileSyncDust whose download
\* tasks run one step at a time
NextDownload ==
    \/ NextPipeline
    \/ \E v \in Targets : RestoreBegin(v)
    \/ \E t \in 1..Len(downloads) : DownloadOk(t)
    \/ \E t \in 1..Len(downloads) : DownloadFail(t)
    \/ RestoreThrow
    \/ RestoreWrite

SpecDownload == InitPipeline /\ [][NextDownload]_vars

\* one call of retry(), whatever fn does at each attempt
InitRetry ==
    /\ file = << >>
    /\ kills = 0
    /\ disk = NoFile
    /\ remote = << >>
    /\ pc = "idle"
    /\ kb = 0
    /\ mem = EmptyManifest
    /\ cvi = -1
    /\ partNum = 0
    /\ fileOffset = 0
    /\ tasks = << >>
    /\ oldMem = EmptyManifest
    /\ oldCvi = -1
    /\ out = << >>
    /\ res = NoRes
    /\ downloads = << >>
    /\ rt = NoRetry
    /\ dust = NoFile
    /\ cdc = NoCdc
    /\ box = NoBox
    /\ kf = NoKey
    /\ watcher = NoWatch
    /\ browser = NoBrowser
    /\ hist = NoHist

NextRetry ==
    \/ \E n \in RetryCounts, d \in Delays : RetryCall(n, d)
    \/ FnOk
    \/ FnThrows
    \/ \E j \in Jitters : Sleep(j)
    \/ LoopExit

SpecRetry == InitRetry /\ [][NextRetry]_vars

\* both upload modes without interruption on one content, corruption of
\* the store, and restores in both modes, one after the other
NextTamper ==
    \/ \E k \in ChunkSizes : Start(k)
    \/ ReadChunk
    \/ \E t \in 1..Len(tasks) : PutOk(t)
    \/ Finish
    \/ \E k \in ChunkSizes : UploadToDust(k)
    \/ \E url \in DOMAIN remote : CorruptBlob(url)
    \/ \E v \in Targets : RestoreBegin(v)
    \/ \E t \in 1..Len(downloads) : DownloadOk(t)
    \/ \E t \in 1..Len(downloads) : DownloadFail(t)
    \/ RestoreThrow
    \/ RestoreWrite
    \/ \E netOk \in BOOLEAN : DownloadFromDust(netOk)
    \/ RestoreExit

SpecTamper == Init /\ [][NextTamper]_vars

\* syncs without interruption, replacement of digests in the manifest, and
\* one restoreFileSyncDust
NextReplace ==
    \/ NextPipeline
    \/ \E v \in 1..MaxVersions, i \in 1..MaxFileLen, ph \in DOMAIN LoadManifest(disk).pool :
          ReplaceDigest(v, i, ph)
    \/ \E v \in Targets : RestoreBegin(v)
    \/ \E t \in 1..Len(downloads) : DownloadOk(t)
    \/ \E t \in 1..Len(downloads) : DownloadFail(t)
    \/ RestoreThrow
    \/ RestoreWrite

SpecReplace == Init /\ [][NextReplace]_vars

\* both upload modes on one content, envelopes that no longer have the
\* recorded digest, and one restore in either mode over a network that
\* does not fail
NextStale ==
    \/ \E k \in ChunkSizes : Start(k)
    \/ ReadChunk
    \/ \E t \in 1..Len(tasks) : PutOk(t)
    \/ Finish
    \/ \E k \in ChunkSizes : UploadToDust(k)
    \/ \E url \in DOMAIN remote : SwapBlob(url)
    \/ \E v \in Targets : RestoreBegin(v)
    \/ \E t \in 1..Len(downloads) : DownloadOk(t)
    \/ RestoreWrite
    \/ DownloadFromDust(TRUE)

SpecStale == Init /\ [][NextStale]_vars

\* the single-version mode alone: uploads, one of them killed, edits of the
\* file between uploads, and one downloadFromDust
NextDust ==
    \/ \E k \in ChunkSizes : UploadToDust(k)
    \/ \E k \in ChunkSizes, n \in 0..MaxFileLen : UploadToDustKilled(k, n)
    \/ \E f \in Files : ModifyUploaded(f)
    \/ \E netOk \in BOOLEAN : DownloadFromDust(netOk)

SpecDust == Init /\ [][NextDust]_vars

\* a FastCDC instance of any configuration on any input: chunk(data), then
\* the read loop of the uploaders on the same input
InitChunker ==
    /\ file = << >>
    /\ kills = 0
    /\ disk = NoFile
    /\ remote = << >>
    /\ pc = "idle"
    /\ kb = 0
    /\ mem = EmptyManifest
    /\ cvi = -1
    /\ partNum = 0
    /\ fileOffset = 0
    /\ tasks = << >>
    /\ oldMem = EmptyManifest
    /\ oldCvi = -1
    /\ out = << >>
    /\ res = NoRes
    /\ downloads = << >>
    /\ rt = NoRetry
    /\ dust = NoFile
    /\ hist = NoHist
    /\ box = NoBox
    /\ kf = NoKey
    /\ watcher = NoWatch
    /\ browser = NoBrowser
    /\ cdc \in {[NoCdc EXCEPT !.pc = "chunking", !.config = c, !.data = d] :
                   c \in Configs, d \in LongFiles}

NextChunker ==
    \/ ChunkStep
    \/ ChunkReturn
    \/ ReadWindow
    \/ ReadEnd

SpecChunker == InitChunker /\ [][NextChunker]_vars

\* the descriptors {part, hash, plain_hash, url} of the chunks of a content,
\* as the older manifest format embedded them in a version
LegacyChunks(data, chunkSizeKB) == uploadToDust(NoFile, << >>, data, chunkSizeKB).manifest.chunks

Reverse(s) == [x \in 1..Len(s) |-> s[Len(s) + 1 - x]]

\* manifests of the older format for a content: one version whose chunks
\* are descriptors, in part order or in another order, all of them or
\* (version pending) all but one; no pool
LegacyManifests(data, chunkSizeKB) ==
    LET cs == LegacyChunks(data, chunkSizeKB)
        all == {cs, Reverse(cs)}
        some == IF cs = << >> THEN {}
                ELSE {SubSeq(cs, 2, Len(cs)), SubSeq(cs, 1, Len(cs) - 1)}
    IN  {[pool |-> << >>,
          versions |-> <<[version |-> 1, file_hash |-> SHA256(data), total_size |-> Len(data),
                          status |-> st, chunks |-> c]>>] :
            st \in {"completed", "pending"}, c \in all}
        \cup
        {[pool |-> << >>,
          versions |-> <<[version |-> 1, file_hash |-> SHA256(data), total_size |-> Len(data),
                          status |-> "pending", chunks |-> c]>>] : c \in some}

\* a manifest of the older format is on disk, with its blobs in the store,
\* when syncFileToDust is first called
InitLegacy ==
    /\ file \in Files
    /\ kills = 0
    /\ \E data \in Files, chunkSizeKB \in ChunkSizes :
          /\ disk \in LegacyManifests(data, chunkSizeKB)
          /\ remote = uploadToDust(NoFile, << >>, data, chunkSizeKB).store
    /\ pc = "idle"
    /\ kb = 0
    /\ mem = EmptyManifest
    /\ cvi = -1
    /\ partNum = 0
    /\ fileOffset = 0
    /\ tasks = << >>
    /\ oldMem = EmptyManifest
    /\ oldCvi = -1
    /\ out = << >>
    /\ res = NoRes
    /\ downloads = << >>
    /\ rt = NoRetry
    /\ dust = NoFile
    /\ cdc = NoCdc
    /\ box = NoBox
    /\ kf = NoKey
    /\ watcher = NoWatch
    /\ browser = NoBrowser
    /\ hist = NoHist

NextLegacy ==
    \/ \E k \in ChunkSizes : Start(k)
    \/ ReadChunk
    \/ \E t \in 1..Len(tasks) : PutOk(t)
    \/ Finish
    \/ Kill

SpecLegacy == InitLegacy /\ [][NextLegacy]_vars

\* a chunk the uploaders emit is encrypted under a key, and the packed
\* buffer, whole or cut, is decrypted under a key
InitEnvelope ==
    /\ file = << >>
    /\ kills = 0
    /\ disk = NoFile
    /\ remote = << >>
    /\ pc = "idle"
    /\ kb = 0
    /\ mem = EmptyManifest
    /\ cvi = -1
    /\ partNum = 0
    /\ fileOffset = 0
    /\ tasks = << >>
    /\ oldMem = EmptyManifest
    /\ oldCvi = -1
    /\ out = << >>
    /\ res = NoRes
    /\ downloads = << >>
    /\ rt = NoRetry
    /\ dust = NoFile
    /\ hist = NoHist
    /\ cdc = NoCdc
    /\ kf = NoKey
    /\ watcher = NoWatch
    /\ browser = NoBrowser
    /\ box \in {[NoBox EXCEPT !.pc = "plain", !.key = k, !.data = p] :
                   k \in Keys, p \in EmittedChunks}

NextEnvelope ==
    \/ \E iv \in IVs : Encrypt(iv)
    \/ Truncate
    \/ \E key \in Keys : Decrypt(key)

SpecEnvelope == InitEnvelope /\ [][NextEnvelope]_vars

\* calls of loadOrGenerateKey one after the other, as the scripts make
\* them, starting without salt.json
NextKey ==
    \/ \E pw \in Passphrases : KeyCall(pw)
    \/ KeyRead
    \/ \E salt \in Salts : KeyGenerate(salt)
    \/ KeyWrite
    \/ KeyKill

SpecKey == InitRetry /\ [][NextKey]_vars

\* the watcher script: change events of the file, its timer, its syncs
NextWatch ==
    \/ \E n \in 1..2 : FileChange(n)
    \/ WatchCallback
    \/ TimerFires
    \/ \E ok \in BOOLEAN : SyncEnd(ok)

SpecWatch == InitRetry /\ [][NextWatch]_vars

\* the same, with a timer that fires once set and a sync that ends; the
\* change events are the environment's and may stop at any time
SpecWatchFair ==
    /\ InitRetry
    /\ [][NextWatch]_vars
    /\ WF_vars(WatchCallback)
    /\ WF_vars(TimerFires)
    /\ WF_vars(\E ok \in BOOLEAN : SyncEnd(ok))

\* a file is uploaded by uploadToDust and its manifest opened in the Dust
\* Browser: chunk requests of several streams, and one GET /stream
InitBrowser ==
    /\ file \in SeqsUpTo(Bytes, MaxSize) \ {<< >>}
    /\ kills = 0
    /\ disk = NoFile
    /\ remote = << >>
    /\ pc = "idle"
    /\ kb = 0
    /\ mem = EmptyManifest
    /\ cvi = -1
    /\ partNum = 0
    /\ fileOffset = 0
    /\ tasks = << >>
    /\ oldMem = EmptyManifest
    /\ oldCvi = -1
    /\ out = << >>
    /\ res = NoRes
    /\ downloads = << >>
    /\ rt = NoRetry
    /\ dust = NoFile
    /\ hist = NoHist
    /\ cdc = NoCdc
    /\ box = NoBox
    /\ kf = NoKey
    /\ watcher = NoWatch
    /\ browser = NoBrowser

NextBrowser ==
    \/ dust = NoFile /\ \E chunkSizeKB \in ChunkSizes : UploadToDust(chunkSizeKB)
    \/ BrowserLoad
    \/ \E index \in 0..(MaxSize - 1) : Request(index)
    \/ \E index \in 0..(MaxSize - 1) : FetchOk(index)
    \/ \E index \in 0..(MaxSize - 1) : FetchFail(index)
    \/ \E index \in 0..(MaxSize - 1) : Store(index)
    \/ \E range \in {NoRange} \cup Ranges(browser.total_size) : StreamBegin(range)
    \/ StreamTurn
    \/ StreamWrite
    \/ ClientClose

SpecBrowser == InitBrowser /\ [][NextBrowser]_vars

\* the event loop runs what is ready, and every axios.get ends within its
\* timeout: the steps of the server are weakly fair, the client's are not
SpecBrowserFair ==
    /\ InitBrowser
    /\ [][NextBrowser]_vars
    /\ WF_vars(StreamTurn)
    /\ WF_vars(StreamWrite)
    /\ WF_vars(\E index \in 0..(MaxSize - 1) : FetchOk(index))
    /\ WF_vars(\E index \in 0..(MaxSize - 1) : Store(index))

(* ------------------------------ properties ---------------------------- *)
Versions == IF IsDoc(disk) THEN disk.versions ELSE << >>

AllSet(chunks) == \A i \in 1..Len(chunks) : chunks[i] # Null

\* the plaintexts of pool[chunks[i]], decrypted from the store, in position order
RECURSIVE PoolPlaintext(_, _, _, _)
PoolPlaintext(manifest, store, chunks, i) ==
    IF i > Len(chunks) THEN << >>
    ELSE decrypt(store[manifest.pool[chunks[i]].url], KeyOf(password)).pt
             \o PoolPlaintext(manifest, store, chunks, i + 1)

Distinct(seq) == \A i, j \in 1..Len(seq) : seq[i] = seq[j] => i = j

\* C1: a restored file of a version that a sync completed has the SHA-256
\* that the sync recorded for the source file, so its bytes are the source's
C1_RoundTrip ==
    \A n \in DOMAIN out :
        (n <= Len(Versions) /\ Versions[n].status = "completed")
            => SHA256(out[n]) = Versions[n].file_hash

\* C2: with V1 and V2 both synced, a restore whose downloads succeed ends
\* well, gives the V1 bytes for version 1 and the V2 bytes for no version
C2_Rollback ==
    (/\ Len(Versions) = 2
     /\ \A v \in 1..2 : Versions[v].status = "completed"
     /\ res.status \notin {"none", "neterror"})
        => /\ res.status = "ok"
           /\ res.target = 1 => (1 \in DOMAIN out /\ SHA256(out[1]) = Versions[1].file_hash)
           /\ res.target # 1 => (2 \in DOMAIN out /\ SHA256(out[2]) = Versions[2].file_hash)

\* C3: every completed version of the saved manifest has all its positions
\* set, and the pool plaintexts in position order hash to its file_hash
C3_CompletedReproducesFile ==
    \A v \in 1..Len(Versions) :
        Versions[v].status = "completed"
            => /\ AllSet(Versions[v].chunks)
               /\ \A i \in 1..Len(Versions[v].chunks) : InPool(disk.pool, Versions[v].chunks[i])
               /\ SHA256(PoolPlaintext(disk, remote, Versions[v].chunks, 1)) = Versions[v].file_hash

\* C4: in every saved manifest, every digest set at a position of a
\* version's chunks is a key of the pool
C4_ChunksInPool ==
    \A v \in 1..Len(Versions) : \A i \in 1..Len(Versions[v].chunks) :
        Versions[v].chunks[i] # Null => InPool(disk.pool, Versions[v].chunks[i])

\* a saved manifest with two versions that share a digest (the dedup path
\* set the second position) and with a pool of at least two uploaded chunks
C4_Witness ==
    /\ Len(Versions) = 2
    /\ Cardinality(DOMAIN disk.pool) >= 2
    /\ \E i \in 1..Len(Versions[1].chunks) : \E j \in 1..Len(Versions[2].chunks) :
          Versions[1].chunks[i] # Null /\ Versions[1].chunks[i] = Versions[2].chunks[j]

\* C5: in every saved manifest only the last version can be pending
C5_OnePendingLast ==
    \A v \in 1..Len(Versions) : Versions[v].status = "pending" => v = Len(Versions)

\* C6: from one saved manifest to the next, every pool entry stays, with
\* the same hash and url
C6_PoolAppendOnly ==
    [][(IsDoc(disk) /\ IsDoc(disk'))
          => \A ph \in DOMAIN disk.pool :
                ph \in DOMAIN disk'.pool /\ disk'.pool[ph] = disk.pool[ph]]_vars

\* C7: a step saves status completed only when Promise.all is reached and
\* every task of the run fulfilled; once a task rejected, the working version
\* stays pending on disk for as long as the invocation lasts and the
\* invocation ends by throwing (or with the process)
C7_FailureLeavesPending ==
    [][/\ (\E v \in 1..Len(Versions) :
              /\ Versions[v].status = "pending"
              /\ IsDoc(disk') /\ Len(disk'.versions) >= v
              /\ disk'.versions[v].status = "completed")
          => (AtAwait /\ \A t \in Own(tasks) : tasks[t].st = "done")
       /\ SomeRejected
          => /\ IsDoc(disk') => disk'.versions[cvi + 1].status = "pending"
             /\ (pc = "running" /\ pc' = "idle") => kills' = kills + 1]_vars

\* an invocation has thrown after one task was rejected and another one
\* fulfilled, and the saved working version is pending
C7_Witness ==
    /\ pc = "failed"
    /\ SomeRejected
    /\ \E t \in Own(tasks) : tasks[t].st = "done"
    /\ IsDoc(disk)
    /\ disk.versions[cvi + 1].status = "pending"

\* C8: once the sync of a content is completed by runs that all had the same
\* chunk size, the chunks sequences and the pool keys are those of one
\* uninterrupted run, wherever the earlier runs were killed
C8_IdempotentResume ==
    (hist.started /\ ~hist.open /\ hist.sameKb)
        => /\ IsDoc(disk)
           /\ [v \in 1..Len(disk.versions) |-> disk.versions[v].chunks] = hist.ref.chunks
           /\ DOMAIN disk.pool = hist.ref.keys

\* C9: a content with pairwise distinct chunks, synced from an empty pool by
\* runs of one chunk size that were interrupted by failed uploads only, has
\* been put once per chunk when its sync completes
C9_ResumeNoReupload ==
    (/\ hist.started /\ ~hist.open /\ hist.sameKb /\ ~hist.killed /\ hist.fresh
     /\ Distinct(ChunksFrom(hist.file, hist.kb, 0)))
        => Puts - hist.base = Len(ChunksFrom(hist.file, hist.kb, 0))

\* C10: the manifest file is never left truncated or partly written
C10_AtomicSave == disk # Torn

\* a version of the manifest that is pending and was opened for the file
PendingMatch(manifest, fileHash) ==
    {v \in 1..Len(manifest.versions) :
        manifest.versions[v].status = "pending" /\ manifest.versions[v].file_hash = fileHash}

\* C11: when the manifest holds a pending version with the file's SHA-256,
\* a call of syncFileToDust decides to resume, and into that version
C11_ResumeIntoPending ==
    Quiet => \A v \in PendingMatch(LoadManifest(disk), SHA256(file)) :
                /\ ResumeDecision(LoadManifest(disk), SHA256(file)) = "resume"
                /\ v = Len(LoadManifest(disk).versions)

\* the last version of the manifest whose status is completed, if any
LastCompleted(manifest) ==
    {v \in 1..Len(manifest.versions) :
        /\ manifest.versions[v].status = "completed"
        /\ \A w \in (v + 1)..Len(manifest.versions) : manifest.versions[w].status # "completed"}

\* C12: a call of syncFileToDust decides to do nothing when the last
\* completed version has the file's SHA-256 (it returns before any save or
\* put); in every other case without a matching pending version it decides
\* to append a new pending version
C12_NoOpOrNew ==
    Quiet =>
        LET manifest == LoadManifest(disk)
            fileHash == SHA256(file)
            upToDate == \E v \in LastCompleted(manifest) : manifest.versions[v].file_hash = fileHash
        IN  /\ upToDate => ResumeDecision(manifest, fileHash) = "noop"
            /\ (~upToDate /\ PendingMatch(manifest, fileHash) = {})
                  => ResumeDecision(manifest, fileHash) = "new"

\* C13: a read-loop step that the resume skip does not take and whose chunk
\* has a digest PH that is a key of the pool submits no upload task and puts
\* nothing, leaves the pool as it is, and ends with position partNum of the
\* working version equal to PH in memory and in the saved manifest
C13_DedupSkip ==
    [][(/\ fileOffset' > fileOffset
        /\ ~ResumeSkip(currentVersionChunks, mem.pool, partNum)
        /\ InPool(mem.pool, MD5(ChunkAt(file, kb, fileOffset))))
          => /\ tasks' = tasks
             /\ remote' = remote
             /\ mem'.pool = mem.pool
             /\ At(mem'.versions[cvi + 1].chunks, partNum) = MD5(ChunkAt(file, kb, fileOffset))
             /\ disk' = mem']_vars

\* the run of a second version has set a position without any upload task:
\* the only blob of the store was put for the first version
C13_Witness ==
    /\ pc = "running"
    /\ tasks = << >>
    /\ Len(mem.versions) = 2
    /\ mem.versions[1].status = "completed"
    /\ Puts = 1
    /\ \E i \in 1..Len(currentVersionChunks) : currentVersionChunks[i] # Null
    /\ disk = mem

\* the digests of the chunks that the read loop cuts from the file, in order
DigestsRead(data, chunkSizeKB) ==
    [i \in 1..Len(ChunksFrom(data, chunkSizeKB, 0)) |-> MD5(ChunksFrom(data, chunkSizeKB, 0)[i])]

\* C14: when an invocation that nothing interrupted returns, the chunks of
\* its version are the digests of the chunks read, in reading order, and
\* the pool keys are those of the starting manifest and these digests,
\* whatever the order in which its upload tasks completed
C14_OrderIndependent ==
    [][(pc = "running" /\ pc' = "idle")
          => /\ disk'.versions[cvi + 1].chunks = DigestsRead(file, kb)
             /\ DOMAIN disk'.pool = hist.ref.keys
             /\ \A v \in 1..cvi : disk'.versions[v].chunks = hist.ref.chunks[v]]_vars

\* the task of a later position has completed while the task of an earlier
\* position with another digest is still running
C14_Witness ==
    /\ pc = "running"
    /\ \E t, u \in 1..Len(tasks) :
          /\ tasks[t].part < tasks[u].part
          /\ tasks[t].chunk # tasks[u].chunk
          /\ tasks[t].st = "running"
          /\ tasks[u].st = "done"
          /\ At(currentVersionChunks, tasks[u].part) = MD5(tasks[u].chunk)
          /\ At(currentVersionChunks, tasks[t].part) = Null

\* C15: once syncFileToDust has returned or thrown, none of the upload tasks
\* is queued or running, so none can put or save any more
C15_AllAwaited ==
    pc # "running" => \A t \in 1..Len(tasks) : ~IsUnsettled(tasks[t])

\* C16: at most uploadLimit = 3 upload tasks and at most downloadLimit = 5
\* download tasks are running at any moment
C16_BoundedParallelism ==
    /\ Cardinality(Running) <= 3
    /\ Cardinality(RunningIn(downloads)) <= 5

\* a version of more than five chunks is being restored: five download
\* tasks are running and the others wait
C16_Witness ==
    /\ Cardinality(RunningIn(downloads)) = 5
    /\ QueuedIn(downloads) # {}
    /\ Len(Versions) = 1
    /\ Len(Versions[1].chunks) > 5

\* the plaintext buffers (actualChunk) held by the upload tasks that were
\* submitted and have not settled
BuffersHeld == {t \in 1..Len(tasks) : IsUnsettled(tasks[t])}

\* C17: at most uploadLimit chunk buffers are held by unsettled upload
\* tasks: the read loop is never more than that ahead of the uploads
C17_BoundedBuffers == Cardinality(BuffersHeld) <= uploadLimit

\* C18: retry calls fn at most retries (3) times; it returns the value of
\* the first attempt that succeeds and then calls nothing more; it throws
\* only when all the attempts have failed; every failed attempt is warned
\* about; it has slept once between two consecutive attempts, for delayMs
\* plus less than 500 ms, and never after the last attempt
C18_Retry ==
    [][/\ rt'.calls <= rt'.retries
       /\ rt'.pc = "returned"
             => /\ rt'.result = rt'.calls
                /\ rt'.warns = rt'.calls - 1
                /\ Len(rt'.waits) = rt'.calls - 1
       /\ rt'.pc = "thrown"
             => /\ rt'.calls = rt'.retries
                /\ rt'.warns = rt'.retries
                /\ Len(rt'.waits) = rt'.retries - 1
       /\ \A w \in 1..Len(rt'.waits) :
             rt'.waits[w] >= rt'.delayMs /\ rt'.waits[w] < rt'.delayMs + 500
       /\ rt.pc \in {"returned", "thrown"} => rt' = rt]_vars

\* retry(fn, 3, d) has returned the value of the third attempt, after two
\* failures and two sleeps
C18_Witness ==
    /\ rt.pc = "returned"
    /\ rt.retries = 3
    /\ rt.result = 3
    /\ rt.warns = 2
    /\ Len(rt.waits) = 2

\* the blobs that the download tasks of the running restore fetch
SyncUrls ==
    IF IsDoc(disk) /\ Len(disk.versions) > 0 /\ VersionToRestore(disk, res.target) # Null
    THEN {disk.pool[ph].url :
             ph \in {h \in Range(VersionToRestore(disk, res.target).chunks) : Fetched(disk, h)}}
    ELSE {}

\* the blobs that downloadFromDust fetches
DustUrls == IF IsDoc(dust) THEN {dust.chunks[x].url : x \in 1..Len(dust.chunks)} ELSE {}

CorruptIn(urls) == \E url \in urls : ~remote[url].ok

\* C19: a restore that has to decrypt a corrupted envelope ends by
\* aborting, restoreFileSyncDust with an error and downloadFromDust after
\* reporting one, and the step leaves every output file as it was
C19_AuthFailureAborts ==
    [][/\ (Restoring /\ res'.status # "running" /\ CorruptIn(SyncUrls))
             => (res'.status = "error" /\ out' = out)
       /\ (res'.status \in {"merged", "aborted"} /\ CorruptIn(DustUrls))
             => (res'.status = "aborted" /\ out' = out)]_vars

\* output files of both modes exist from earlier restores, a blob was
\* corrupted since, and restoreFileSyncDust has thrown at that blob
C19_Witness ==
    /\ res.status = "error"
    /\ CorruptIn(SyncUrls)
    /\ \E t \in 1..Len(downloads) :
          downloads[t].st = "failed" /\ ~remote[disk.pool[downloads[t].plainHash].url].ok
    /\ 0 \in DOMAIN out
    /\ 1 \in DOMAIN out
    /\ out[1] = file

\* every position of the version is a key of the pool, and the pool
\* plaintexts in position order are not the content the version was opened
\* for: a digest was replaced by the key of another pool entry
Replaced(manifest, ver) ==
    /\ AllSet(ver.chunks)
    /\ \A i \in 1..Len(ver.chunks) : InPool(manifest.pool, ver.chunks[i])
    /\ SHA256(PoolPlaintext(manifest, remote, ver.chunks, 1)) # ver.file_hash

\* C20: a restoreFileSyncDust of a version in which a digest was replaced by
\* another key of the pool ends with an error, and writes no output file
C20_ReplacedDigestFatal ==
    [][(/\ Restoring
        /\ res'.status # "running"
        /\ Replaced(disk, VersionToRestore(disk, res.target)))
          => (res'.status = "error" /\ out' = out)]_vars

\* a blob that the restore fetches no longer has the recorded ciphertext
\* digest
StaleSync ==
    \E ph \in Range(VersionToRestore(disk, res.target).chunks) :
        Fetched(disk, ph) /\ MD5(remote[disk.pool[ph].url]) # disk.pool[ph].hash

StaleDust == \E x \in 1..Len(dust.chunks) : MD5(remote[dust.chunks[x].url]) # dust.chunks[x].hash

\* C21: a restore, in either mode, that fetches a blob whose MD5 is not the
\* recorded one while every blob decrypts, completes normally and writes
\* its output
C21_DigestMismatchWarns ==
    [][/\ (Restoring /\ res'.status # "running" /\ StaleSync /\ ~CorruptIn(SyncUrls))
             => (res'.status = "ok" /\ out' # out)
       /\ (res'.status \in {"merged", "aborted"} /\ StaleDust /\ ~CorruptIn(DustUrls))
             => (res'.status = "merged" /\ out' # out)]_vars

\* C22: a restore whose reconstructed bytes do not have the recorded
\* file_hash does not report success, and its output file is kept
C22_HashMismatchReported ==
    /\ res.status = "merged" => SHA256(out[0]) = dust.file_hash
    /\ res.status = "ok" => SHA256(out[VersionToRestore(disk, res.target).version])
                                = VersionToRestore(disk, res.target).file_hash
    /\ res.status = "mismatch" => VersionToRestore(disk, res.target).version \in DOMAIN out

\* the version numbers of a manifest
VersionNumbers(manifest) == {manifest.versions[v].version : v \in 1..Len(manifest.versions)}

\* C23: a call of restoreFileSyncDust without a target version that writes
\* an output writes the latest version whose status is completed; a call
\* with a version number that the manifest does not have fails and writes
\* nothing
C23_TargetSelection ==
    [][(NoRestoreYet /\ res'.status # "none" /\ IsDoc(disk) /\ disk.versions # << >>) =>
          /\ (res'.target = 0 /\ out' # out) =>
                \E v \in LastCompleted(disk) : DOMAIN out' = {disk.versions[v].version}
          /\ (res'.target # 0 /\ res'.target \notin VersionNumbers(disk)) =>
                (res'.status = "error" /\ out' = out)]_vars

\* the length of the x-th chunk of a boundaries array
ChunkLen(bs, x) == bs[x] - (IF x = 1 THEN 0 ELSE bs[x - 1])

\* C24: the boundaries that chunk(data) has pushed cut consecutive pieces
\* of data, every piece has a length in [minSize, maxSize] unless it is the
\* last piece of the input, and the boundaries that chunk(data) returns
\* end at the length of data: none for the empty input, one for an input
\* not longer than minSize
C24_ChunkerPartition ==
    LET bs == cdc.boundaries
    IN  /\ \A x \in 1..Len(bs) :
              /\ ChunkLen(bs, x) >= 0
              /\ bs[x] <= Len(cdc.data)
              /\ ChunkLen(bs, x) <= cdc.config.maxSize
              /\ ChunkLen(bs, x) < cdc.config.minSize => bs[x] = Len(cdc.data)
        /\ cdc.offset = (IF bs = << >> THEN 0 ELSE bs[Len(bs)])
        /\ cdc.pc = "done" =>
              /\ cdc.offset = Len(cdc.data)
              /\ cdc.data = << >> => bs = << >>
              /\ (cdc.data # << >> /\ Len(cdc.data) <= cdc.config.minSize) => bs = <<Len(cdc.data)>>

\* a run of chunk(data) that cut a piece shorter than minSize at the end
\* of an input of several pieces
C24_Witness ==
    /\ cdc.pc = "done"
    /\ Len(cdc.boundaries) >= 3
    /\ ChunkLen(cdc.boundaries, Len(cdc.boundaries)) < cdc.config.minSize
    /\ \E x \in 1..Len(cdc.boundaries) : ChunkLen(cdc.boundaries, x) = cdc.config.maxSize

\* C25: every turn of the loop of chunk(data) and of the uploaders' read
\* loop, which run while at least one byte remains, advances the offset by
\* at least 1
C25_AlwaysAdvances ==
    [][/\ cdc'.boundaries # cdc.boundaries => cdc'.offset >= cdc.offset + 1
       /\ cdc'.wboundaries # cdc.wboundaries => cdc'.woffset >= cdc.woffset + 1]_vars

\* one boundaries array continues the other
IsPrefix(a, b) == Len(a) <= Len(b) /\ a = SubSeq(b, 1, Len(a))

\* C26: on every input and under every configuration, the boundaries that
\* the uploaders' read loop reaches through its windows of at most maxSize
\* bytes are, turn after turn, the boundaries of chunk(data) on the whole
\* input, and the two loops end with the same boundaries
C26_WindowIndependent ==
    /\ IsPrefix(cdc.wboundaries, cdc.boundaries)
    /\ cdc.wpc = "done" => cdc.wboundaries = cdc.boundaries

\* both loops have ended on an input of several windows, with a piece that
\* a boundary inside its window ended
C26_Witness ==
    /\ cdc.wpc = "done"
    /\ Len(cdc.data) > 2 * cdc.config.maxSize
    /\ \E x \in 1..Len(cdc.wboundaries) :
          /\ ChunkLen(cdc.wboundaries, x) < cdc.config.maxSize
          /\ cdc.wboundaries[x] < Len(cdc.data)

\* C27: when a call of uploadToDust has run to its end, downloadFromDust on
\* the manifest it produced merges, in part order, exactly the bytes of
\* the uploaded file
C27_DustRoundTrip ==
    [][(dust' # dust /\ kills' = kills) =>
          MergeLoop(dust'.chunks, remote', 1) = [ok |-> TRUE, pt |-> file]]_vars

\* the version a run is working on, or the one the next run would continue
WorkingVersion == IF pc = "running" THEN cvi + 1 ELSE Len(disk.versions)

\* a position reserved by an upload task of the running call that has been
\* submitted and is not settled
Reserved(j) ==
    \E t \in 1..Len(tasks) : IsUnsettled(tasks[t]) /\ ~tasks[t].old /\ tasks[t].part = j

\* C28: in every manifest on disk, during a run and between runs, below a
\* position of the working version that is set every position is set or
\* reserved by a pending upload task
C28_PrefixConsistency ==
    (IsDoc(disk) /\ WorkingVersion \in 1..Len(disk.versions)) =>
        LET chunks == disk.versions[WorkingVersion].chunks
        IN  \A i \in 0..(Len(chunks) - 1) : At(chunks, i) # Null =>
                \A j \in 0..(i - 1) : At(chunks, j) # Null \/ Reserved(j)

\* C29: whatever the order in which the download tasks of a restore
\* complete, the restore writes its output only when every task has
\* succeeded, and the bytes written are the decrypted chunks of the
\* version in ascending position order
C29_RestoreOrderIndependent ==
    [][(Restoring /\ out' # out) =>
          LET ver == VersionToRestore(disk, res.target)
          IN  /\ \A t \in 1..Len(downloads) : downloads[t].st = "done"
              /\ out' = PoolSet(out, ver.version, ConcatBuffers(disk, remote, ver.chunks, 1))]_vars

\* a restore has written a version of several chunks that are not all the
\* same, fetched by tasks that ran concurrently
C29_Witness ==
    /\ res.status = "ok"
    /\ Len(downloads) >= 3
    /\ \E t, u \in 1..Len(downloads) : downloads[t].buf # downloads[u].buf
    /\ out = PoolSet(<< >>, VersionToRestore(disk, res.target).version, file)

\* a chunks array of the current format: digests and holes only
IsPure(chunks) == \A x \in 1..Len(chunks) : ~IsDescriptor(chunks[x])

\* C30: when syncFileToDust loads a manifest, every descriptor embedded in
\* a version is in the pool under its plain_hash with the hash and url of a
\* descriptor of that plain_hash, position part of the version's chunks
\* holds that plain_hash, no descriptor is left in memory or in the first
\* manifest saved, and a version and a pool without descriptors are loaded
\* unchanged
C30_LegacyUpgrade ==
    [][(IsDoc(disk) /\ pc # "running" /\ pc' = "running") =>
          /\ \A v \in 1..Len(disk.versions) :
                LET old == disk.versions[v].chunks
                    new == mem'.versions[v].chunks
                IN  /\ \A x \in 1..Len(old) : IsDescriptor(old[x]) =>
                          /\ InPool(mem'.pool, old[x].plain_hash)
                          /\ \E w \in 1..Len(disk.versions) :
                                \E y \in 1..Len(disk.versions[w].chunks) :
                                    LET d == disk.versions[w].chunks[y]
                                    IN  /\ IsDescriptor(d)
                                        /\ d.plain_hash = old[x].plain_hash
                                        /\ mem'.pool[old[x].plain_hash] = [hash |-> d.hash, url |-> d.url]
                          /\ At(new, old[x].part) = old[x].plain_hash
                    /\ IsPure(new)
                    /\ IsPure(disk'.versions[v].chunks)
                    /\ IsPure(old) => new = old
          /\ (\A v \in 1..Len(disk.versions) : IsPure(disk.versions[v].chunks))
                => mem'.pool = disk.pool]_vars

\* a call has loaded a manifest whose first version embedded two
\* descriptors, and opened a second version before any upload
C30_Witness ==
    /\ pc = "running"
    /\ cvi = 1
    /\ fileOffset = 0
    /\ kills = 0
    /\ Cardinality(DOMAIN mem.pool) = 2
    /\ Len(mem.versions[1].chunks) = 2
    /\ \A x \in 1..2 : InPool(mem.pool, mem.versions[1].chunks[x])

\* C31: for every key and every chunk the uploaders emit, decrypt under the
\* same key of what encrypt packed returns the chunk, and decrypt throws on
\* every buffer of at most 28 bytes
C31_EnvelopeRoundTrip ==
    box.pc = "done" =>
        /\ (box.with = box.key /\ \E iv \in IVs : box.packed = encrypt(box.data, box.key, iv))
              => box.result = [ok |-> TRUE, pt |-> box.data]
        /\ EnvelopeLength(box.packed) <= 28 => ~box.result.ok

\* C32: a call of loadOrGenerateKey writes salt.json only when it is
\* absent and the passphrase is not empty, an existing salt.json is never
\* changed, and any two calls that return a key for the same passphrase
\* return the same key, under which what was encrypted with the other
\* decrypts
C32_SaltOnce ==
    [][/\ kf'.file # kf.file => (kf.file = NoFile /\ kf.password # "")
       /\ \A x, y \in 1..Len(kf'.returned) :
             kf'.returned[x].password = kf'.returned[y].password =>
                /\ kf'.returned[x].key = kf'.returned[y].key
                /\ decrypt(encrypt(<<0>>, kf'.returned[x].key, 1), kf'.returned[y].key).ok]_vars

\* the call that wrote salt.json returned a key, a call with the empty
\* passphrase was rejected, and a later call returned a key for the first
\* passphrase again
C32_Witness ==
    /\ IsDoc(kf.file)
    /\ kf.pc = "idle"
    /\ kf.password = ""
    /\ Len(kf.returned) >= 2
    /\ kf.returned[1].password = kf.returned[2].password

\* C33: the watcher never has two invocations of syncFileToDust running, a
\* timer that fires while isSyncing is true starts none, and isSyncing is
\* false again when the sync has ended, whether it returned or threw
C33_OneSyncAtATime ==
    /\ watcher.running <= 1
    /\ watcher.isSyncing <=> watcher.running = 1

\* a sync ended by throwing, the timer fired during a later sync and
\* started none, and that sync has ended as well
C33_Witness ==
    /\ watcher.threw >= 1
    /\ watcher.syncs >= 2
    /\ watcher.skippedAt > 0
    /\ ~watcher.isSyncing

\* C34: when the timer of a change fires during a sync that began before
\* the change, a later sync that reads the file after the change is
\* eventually started, whether or not another change event arrives
C34_SkippedChangeRetried ==
    (watcher.skippedAt > watcher.covers) ~> (watcher.covers >= watcher.skippedAt)

\* C35: the chunk cache of a manifest never holds more than MAX_CACHE_SIZE
\* decrypted chunks, whatever the interleaving of the chunk requests; an
\* insertion into a full cache drops the oldest inserted entry and appends
\* the new one after the others.
C35_CacheBounded ==
    [][/\ Len(browser'.chunkCache) <= MAX_CACHE_SIZE
       /\ (browser'.chunkCache # browser.chunkCache /\ browser.loaded # "no") =>
             LET old == browser.chunkCache
                 new == browser'.chunkCache
                 kept == IF Len(old) = MAX_CACHE_SIZE THEN SubSeq(old, 2, Len(old)) ELSE old
             IN  /\ new # << >>
                 /\ SubSeq(new, 1, Len(new) - 1) = kept
                 /\ \A x \in 1..Len(old) : old[x].index # new[Len(new)].index]_vars

\* chunk 0, the first inserted, was evicted from a full cache and is being
\* fetched again while the cache is full
C35_Witness ==
    /\ Len(browser.chunkCache) = MAX_CACHE_SIZE
    /\ \A x \in 1..Len(browser.chunkCache) : browser.chunkCache[x].index # 0
    /\ \E r \in browser.pendingRequests : r.index = 0 /\ r.pc = "decrypted"

\* C36: a GET /stream on a manifest of uploadToDust, with or without a Range
\* header, that ends without a network failure and without a disconnect has
\* written exactly the bytes start..end of the file, as many as the
\* Content-Length it announced; nothing is written after a disconnect.
C36_StreamExact ==
    /\ ~browser.stream.wroteAfterClose
    /\ (browser.stream.pc = "ended" /\ ~browser.netFailed /\ ~browser.stream.aborted) =>
          /\ browser.stream.written =
                SubSeq(file, browser.stream.start + 1, browser.stream.end + 1)
          /\ Len(browser.stream.written) = browser.stream.announced

\* C40: the loop of GET /stream terminates: a stream that is in its loop
\* eventually ends its response.
C40_StreamTerminates == (browser.stream.pc = "loop") ~> (browser.stream.pc = "ended")

\* C37: each plaintext digest is put to the remote at most once, also when
\* one file holds the same chunk content at several positions; between
\* runs the number of blobs put equals the number of pool keys of the
\* saved manifest.
C37_OnePutPerDigest ==
    /\ \A u1, u2 \in DOMAIN remote : u1.ph = u2.ph => u1 = u2
    /\ (Quiet /\ IsDoc(disk)) => Puts = Cardinality(DOMAIN disk.pool)

\* C38: from one saved manifest to the next no version disappears, every
\* version other than the one a run works in (the version it resumed or
\* appended) keeps its status, file_hash, total_size and chunks, a
\* completed version stays completed, and versions[i].version is i + 1
\* (here: the x-th version has number x).
C38_OtherVersionsUntouched ==
    [][(IsDoc(disk) /\ IsDoc(disk')) =>
          /\ Len(disk'.versions) >= Len(disk.versions)
          /\ \A x \in 1..Len(disk'.versions) : disk'.versions[x].version = x
          /\ \A x \in 1..Len(disk.versions) :
                /\ disk.versions[x].status = "completed" =>
                      disk'.versions[x].status = "completed"
                /\ x \notin {cvi + 1, cvi' + 1, oldCvi + 1} =>
                      disk'.versions[x] = disk.versions[x]]_vars

\* C39: a step of restoreFileSyncDust that writes an output file restores a
\* version of which every position is set and in the pool, so that every
\* position was fetched, decrypted and verified: no position is left out
\* of the file.
C39_NoSilentOmission ==
    [][out' # out =>
          LET ver == VersionToRestore(disk, res'.target)
          IN  \A i \in 1..Len(ver.chunks) : Fetched(disk, ver.chunks[i])]_vars

====
